---------------------------- MODULE Spec2Model ----------------------------
(***************************************************************************)
(* Model of the concrete-strength prediction handlers of HORMIGON_ML:      *)
(* ConcreteModelHandler of src/model_handler.py (the strict handler) and   *)
(* ConcreteModelHandler of src/model_handler_fixed.py (the permissive      *)
(* handler, the one the GUI imports).                                      *)
(*                                                                         *)
(* Numbers.  A Python float is a record: Fin(n) is a finite value, NaN,    *)
(* PosInf and NegInf are the IEEE specials; comparisons follow IEEE (every *)
(* comparison with NaN is false).  Finite values are fixed-point integers: *)
(*   mix-design fields and range bounds     tenths        (2.5 -> 25)      *)
(*   model output (prediction)              thousandths   (412.6 -> 412600)*)
(*   result strength                        hundredths    (round(x, 2))    *)
(*   estabilidad                            ten-thousandths                *)
(*   confidence in the result               thousandths   (round(x, 3))    *)
(*   water/cement ratio in the result       thousandths   (round(x, 3))    *)
(***************************************************************************)
EXTENDS Integers, Sequences, FiniteSets, TLC

VARIABLES
    module,          \* "strict": src/model_handler.py; "permissive": src/model_handler_fixed.py
    model_file,      \* what lies at model_path on disk
    metadata_file,   \* what lies at metadata_path on disk
    model,           \* self.model
    metadata,        \* self.metadata
    feature_names,   \* self.feature_names
    is_loaded,       \* self.is_loaded
    pc,              \* the caller: "idle", "building" a Mix Design, or "called"
    inputs,          \* the Mix Design the caller holds
    edits,           \* how many fields of it the caller has changed
    call,            \* the last handler call: operation, arguments, outcome
    clock,           \* the wall clock datetime.now() reads
    seen,            \* an earlier predict_strength call the caller has kept
    probe,           \* two stability values and the confidence computed for each
    widget,          \* one SliderSpinBoxWidget: its range, decimals, slider and spin box
    widget_op,       \* the last operation on that widget and its argument
    app,             \* the application: "start", "exited" or "shown", and its exit status
    sliders,         \* the eight SliderSpinBoxWidgets of the main window
    presets_combo,   \* the current text of the preset selector
    current_prediction,  \* ConcreteStrengthPredictor.current_prediction
    prediction_history,  \* ConcreteStrengthPredictor.prediction_history
    event,           \* the last user request the window handled, and what it showed
    reported         \* how many error dialogs the window has shown

handlerVars == <<module, model_file, metadata_file, model, metadata,
                 feature_names, is_loaded>>

callerVars == <<pc, inputs, edits, call>>

probeVars == <<seen, probe>>

widgetVars == <<widget, widget_op>>

guiVars == <<app, sliders, presets_combo, current_prediction, prediction_history,
             event, reported>>

vars == <<handlerVars, callerVars, clock, probeVars, widgetVars, guiVars>>

-----------------------------------------------------------------------------
(* Python floats *)

Fin(n) == [tag |-> "fin", v |-> n]
NaN == [tag |-> "nan", v |-> 0]
PosInf == [tag |-> "inf", v |-> 1]
NegInf == [tag |-> "inf", v |-> -1]

IsNaN(x) == x.tag = "nan"
IsInf(x) == x.tag = "inf"
IsFinite(x) == x.tag = "fin"

\* a < b
Lt(a, b) ==
    IF IsNaN(a) \/ IsNaN(b) THEN FALSE
    ELSE IF IsInf(a) THEN a.v = -1 /\ b # NegInf
    ELSE IF IsInf(b) THEN b.v = 1
    ELSE a.v < b.v

\* a <= b
Le(a, b) == ~IsNaN(a) /\ ~IsNaN(b) /\ (a = b \/ Lt(a, b))

\* Python's max(a, b) and min(a, b): the first argument unless the second beats it
PyMax(a, b) == IF Lt(a, b) THEN b ELSE a
PyMin(a, b) == IF Lt(b, a) THEN b ELSE a

\* -x and abs(x)
Neg(x) == IF IsNaN(x) THEN x ELSE [tag |-> x.tag, v |-> -x.v]
Abs(x) == IF Lt(x, Fin(0)) THEN Neg(x) ELSE x

\* a + b
Add(a, b) ==
    IF IsNaN(a) \/ IsNaN(b) THEN NaN
    ELSE IF IsInf(a) /\ IsInf(b) THEN (IF a.v = b.v THEN a ELSE NaN)
    ELSE IF IsInf(a) THEN a
    ELSE IF IsInf(b) THEN b
    ELSE Fin(a.v + b.v)

\* k * x for an integer k > 0
Scale(k, x) == IF IsFinite(x) THEN Fin(k * x.v) ELSE x

\* n / d (d > 0) rounded to the nearest integer, ties to even: round(x, ndigits)
RoundHalfEven(n, d) ==
    LET q == n \div d
        r == n % d
    IN  IF 2 * r < d THEN q
        ELSE IF 2 * r > d THEN q + 1
        ELSE IF q % 2 = 0 THEN q ELSE q + 1

\* round(x, ndigits) of a float held with `d` times the result's resolution
Round(x, d) == IF IsFinite(x) THEN Fin(RoundHalfEven(x.v, d)) ELSE x

-----------------------------------------------------------------------------
(* The eight fields of a Mix Design *)

FeatureOrder ==
    << "Cemento_kg_m3", "Escoria_Alto_Horno_kg_m3", "Ceniza_Volante_kg_m3",
       "Agua_kg_m3", "Superplastificante_kg_m3", "Agregado_Grueso_kg_m3",
       "Agregado_Fino_kg_m3", "Edad_dias" >>

Features == {FeatureOrder[i] : i \in 1..Len(FeatureOrder)}

Range(s) == {s[i] : i \in 1..Len(s)}

\* VALID_RANGES of src/model_handler.py, (min, max) in whole units
VALID_RANGES_strict ==
    [ Cemento_kg_m3            |-> <<150, 500>>,
      Escoria_Alto_Horno_kg_m3 |-> <<0, 300>>,
      Ceniza_Volante_kg_m3     |-> <<0, 200>>,
      Agua_kg_m3               |-> <<130, 220>>,
      Superplastificante_kg_m3 |-> <<0, 25>>,
      Agregado_Grueso_kg_m3    |-> <<850, 1100>>,
      Agregado_Fino_kg_m3      |-> <<650, 900>>,
      Edad_dias                |-> <<1, 365>> ]

\* VALID_RANGES of src/model_handler_fixed.py
VALID_RANGES_permissive ==
    [ Cemento_kg_m3            |-> <<102, 540>>,
      Escoria_Alto_Horno_kg_m3 |-> <<0, 359>>,
      Ceniza_Volante_kg_m3     |-> <<0, 200>>,
      Agua_kg_m3               |-> <<122, 247>>,
      Superplastificante_kg_m3 |-> <<0, 32>>,
      Agregado_Grueso_kg_m3    |-> <<801, 1145>>,
      Agregado_Fino_kg_m3      |-> <<594, 993>>,
      Edad_dias                |-> <<1, 365>> ]

VALID_RANGES(m) ==
    IF m = "strict" THEN VALID_RANGES_strict ELSE VALID_RANGES_permissive

\* NEC_CLASSIFICATION, in dict (insertion) order; lo and hi are floats in
\* thousandths, the last hi is float('inf')
Band(lo, hi, name, color, description) ==
    [lo |-> lo, hi |-> hi, clasificacion |-> name, color |-> color,
     descripcion |-> description]

NEC_CLASSIFICATION_strict ==
    << Band(Fin(0), Fin(210000), "Baja Resistencia", "#ef4444", "Uso estructural limitado"),
       Band(Fin(210000), Fin(280000), "Resistencia Normal", "#f97316", "Uso estructural comun"),
       Band(Fin(280000), Fin(420000), "Alta Resistencia", "#22c55e", "Estructuras exigentes"),
       Band(Fin(420000), PosInf, "Ultra Alta Resistencia", "#3b82f6", "Estructuras especiales") >>

NEC_CLASSIFICATION_permissive ==
    << Band(Fin(0), Fin(140000), "Baja Resistencia", "#ef4444", "Uso estructural limitado"),
       Band(Fin(140000), Fin(280000), "Resistencia Normal", "#f97316", "Uso estructural comun"),
       Band(Fin(280000), Fin(420000), "Alta Resistencia", "#22c55e", "Estructuras exigentes"),
       Band(Fin(420000), PosInf, "Ultra Alta Resistencia", "#3b82f6", "Estructuras especiales") >>

\* band tables whose second interval starts below the end of the first
NEC_CLASSIFICATION_overlapping(m) ==
    [NEC_CLASSIFICATION_permissive EXCEPT ![2].lo = Fin(130000)]

NEC_CLASSIFICATION(m) ==
    IF m = "strict" THEN NEC_CLASSIFICATION_strict
    ELSE NEC_CLASSIFICATION_permissive

\* the fallback triple of _classify_nec
SinClasificar ==
    [clasificacion |-> "Sin Clasificar", color |-> "#6b7280",
     descripcion |-> "Valor fuera de rangos estandar"]

-----------------------------------------------------------------------------
(* Optional values (Python None) and Mix Designs (Python dicts) *)

None == [none |-> TRUE]
Some(x) == [none |-> FALSE, val |-> x]

\* A dict: its keys in insertion order and the value of each key
Dict(keys, val) == [keys |-> keys, val |-> val]
EmptyDict == Dict(<<>>, <<>>)
Has(d, k) == k \in Range(d.keys)
Get(d, k) == d.val[CHOOSE i \in 1..Len(d.keys) : d.keys[i] = k]

\* d[k] = v: an existing key keeps its place, a new key goes last
DictSet(d, k, v) ==
    IF Has(d, k)
    THEN Dict(d.keys, [i \in 1..Len(d.keys) |-> IF d.keys[i] = k THEN v ELSE d.val[i]])
    ELSE Dict(Append(d.keys, k), Append(d.val, v))

\* del d[k]
DictDel(d, k) ==
    LET keep == {i \in 1..Len(d.keys) : d.keys[i] # k}
        pos(j) == CHOOSE i \in keep : Cardinality({h \in keep : h < i}) = j - 1
    IN  Dict([j \in 1..Cardinality(keep) |-> d.keys[pos(j)]],
             [j \in 1..Cardinality(keep) |-> d.val[pos(j)]])

\* the dict with keys `order` and values val[k]
DictOf(order, val) == Dict(order, [i \in 1..Len(order) |-> val[order[i]]])

-----------------------------------------------------------------------------
(* _load_model_and_metadata *)

\* What a model file can hold: nothing (no file), bytes that do not
\* deserialize, or an object.  An object with predict is a deterministic
\* function of the feature vector, fixed by `seed`; `finite_only` says whether
\* its predict raises on a NaN or infinite feature.
NoModelFile == [kind |-> "missing", has_predict |-> FALSE, seed |-> 0, finite_only |-> FALSE]
CorruptModelFile == [kind |-> "corrupt", has_predict |-> FALSE, seed |-> 0, finite_only |-> FALSE]
Regressor(seed, finite_only) ==
    [kind |-> "object", has_predict |-> TRUE, seed |-> seed, finite_only |-> finite_only]
\* an object that deserializes but has no predict method
PlainObject == [kind |-> "object", has_predict |-> FALSE, seed |-> 0, finite_only |-> FALSE]

\* What a metadata file can hold: nothing, text that is not JSON, or a document
MetadataDoc(has_info, has_metricas, variables, estabilidad) ==
    [kind |-> "json", has_modelo_info |-> has_info, has_metricas |-> has_metricas,
     variables_entrada |-> variables, estabilidad |-> estabilidad]
NoMetadataFile == [kind |-> "missing", has_modelo_info |-> FALSE, has_metricas |-> FALSE,
                   variables_entrada |-> <<>>, estabilidad |-> NaN]
CorruptMetadataFile == [kind |-> "corrupt", has_modelo_info |-> FALSE, has_metricas |-> FALSE,
                        variables_entrada |-> <<>>, estabilidad |-> NaN]

Handler(mdl, meta, names, loaded) ==
    [model |-> mdl, metadata |-> meta, feature_names |-> names, is_loaded |-> loaded]

\* src/model_handler.py: pickle.load, json.load, feature names from the metadata
LoadStrict(mf, df) ==
    IF mf.kind # "object" THEN Handler(None, None, None, FALSE)
    ELSE IF df.kind # "json" THEN Handler(Some(mf), None, None, FALSE)
    ELSE IF ~df.has_modelo_info THEN Handler(Some(mf), Some(df), None, FALSE)
    ELSE Handler(Some(mf), Some(df), Some(df.variables_entrada), TRUE)

\* src/model_handler_fixed.py: joblib.load, the predict check, json.load;
\* the feature names are the constructor's own list
LoadPermissive(mf, df) ==
    IF mf.kind # "object" THEN Handler(None, None, Some(FeatureOrder), FALSE)
    ELSE IF ~mf.has_predict THEN Handler(Some(mf), None, Some(FeatureOrder), FALSE)
    ELSE IF df.kind # "json" THEN Handler(Some(mf), None, Some(FeatureOrder), FALSE)
    ELSE Handler(Some(mf), Some(df), Some(FeatureOrder), TRUE)

\* ConcreteModelHandler.__init__
Load(m, mf, df) == IF m = "strict" THEN LoadStrict(mf, df) ELSE LoadPermissive(mf, df)

-----------------------------------------------------------------------------
(* validate_inputs *)

\* min and max of a field as floats in tenths
MinOf(m, f) == Fin(10 * VALID_RANGES(m)[f][1])
MaxOf(m, f) == Fin(10 * VALID_RANGES(m)[f][2])

\* margin = (max_val - min_val) * 0.1, in tenths
Margin(m, f) == Fin(VALID_RANGES(m)[f][2] - VALID_RANGES(m)[f][1])

\* the extended minimum without its clamp at 0
ExtendedMinUnclamped(m, f) == Add(MinOf(m, f), Neg(Margin(m, f)))

\* extended_min = max(0, min_val - margin); extended_max = max_val + margin
ExtendedMin(m, f) == PyMax(Fin(0), Add(MinOf(m, f), Neg(Margin(m, f))))
ExtendedMax(m, f) == Add(MaxOf(m, f), Margin(m, f))

\* The bounds a value is held against: [min, max] in src/model_handler.py,
\* [extended_min, extended_max] in src/model_handler_fixed.py
LowerBound(m, f) == IF m = "strict" THEN MinOf(m, f) ELSE ExtendedMin(m, f)
UpperBound(m, f) == IF m = "strict" THEN MaxOf(m, f) ELSE ExtendedMax(m, f)

\* the comparison with both bounds exclusive
InRangeExclusive(m, f, value) == Lt(LowerBound(m, f), value) /\ Lt(value, UpperBound(m, f))

\* min_val <= value <= max_val (extended_min <= value <= extended_max)
InRange(m, f, value) == Le(LowerBound(m, f), value) /\ Le(value, UpperBound(m, f))

MissingError(f) == [kind |-> "Falta la variable", feature |-> f, value |-> NaN]
RangeError(f, value) == [kind |-> "fuera del rango", feature |-> f, value |-> value]

\* the first loop stopping at the first absent name
MissingErrorsFirstOnly(names, inp) ==
    LET Absent(f) == ~Has(inp, f)
        absent == SelectSeq(names, Absent)
    IN  IF absent = <<>> THEN <<>> ELSE <<MissingError(absent[1])>>

\* first loop: one error per name of feature_names that is no key of inputs
MissingErrors(names, inp) ==
    LET Absent(f) == ~Has(inp, f)
        absent == SelectSeq(names, Absent)
    IN  [i \in 1..Len(absent) |-> MissingError(absent[i])]

\* second loop: over inputs.items(), one error per key of VALID_RANGES whose
\* value is out of range
RangeErrors(m, inp) ==
    LET Bad(k) == k \in DOMAIN VALID_RANGES(m) /\ ~InRange(m, k, Get(inp, k))
        bad == SelectSeq(inp.keys, Bad)
    IN  [i \in 1..Len(bad) |-> RangeError(bad[i], Get(inp, bad[i]))]

\* validate_inputs(inputs) with self.feature_names = names: (valid, errors)
validate_inputs(m, names, inp) ==
    LET errors == MissingErrors(names, inp) \o RangeErrors(m, inp)
    IN  [valid |-> Len(errors) = 0, errors |-> errors]

-----------------------------------------------------------------------------
(* _classify_nec *)

Triple(b) ==
    [clasificacion |-> b.clasificacion, color |-> b.color, descripcion |-> b.descripcion]

\* the band test with the bounds the other way round: min_val < strength <= max_val
InBandUpperInclusive(b, strength) == Lt(b.lo, strength) /\ Le(strength, b.hi)

\* min_val <= strength < max_val
InBand(b, strength) == Le(b.lo, strength) /\ Lt(strength, b.hi)

\* the first band of the table, in its order, that holds the strength, else
\* the fallback
RECURSIVE FirstBand(_, _)
FirstBand(bands, strength) ==
    IF bands = <<>> THEN SinClasificar
    ELSE IF InBand(Head(bands), strength) THEN Triple(Head(bands))
    ELSE FirstBand(Tail(bands), strength)

_classify_nec(m, strength) == FirstBand(NEC_CLASSIFICATION(m), strength)

-----------------------------------------------------------------------------
(* The model artifact *)

\* The scalars a regressor can answer, in thousandths of kg/cm2
ModelOutputs ==
    << Fin(-12500), Fin(0), Fin(139999), Fin(140000), Fin(209999), Fin(210000),
       Fin(279994), Fin(280000), Fin(412600), Fin(419996), Fin(420000),
       Fin(1500000), NaN, PosInf, NegInf >>

\* A regressor is a fixed function of the feature vector, position by position
RECURSIVE WeightedSum(_, _)
WeightedSum(X, i) ==
    IF i > Len(X) THEN 0
    ELSE (IF IsFinite(X[i]) THEN i * X[i].v ELSE 7 * i) + WeightedSum(X, i + 1)

\* a regressor whose answer depends on when it is asked
ModelPredictDrifting(mdl, X) ==
    IF ~mdl.has_predict THEN [raised |-> "AttributeError", value |-> NaN]
    ELSE [raised |-> "",
          value |-> ModelOutputs[((mdl.seed + clock + WeightedSum(X, 1)) % Len(ModelOutputs)) + 1]]

\* self.model.predict(X)[0]: the exception raised ("" when none) and the scalar
ModelPredict(mdl, X) ==
    IF ~mdl.has_predict THEN [raised |-> "AttributeError", value |-> NaN]
    ELSE IF mdl.finite_only /\ \E i \in 1..Len(X) : ~IsFinite(X[i])
    THEN [raised |-> "ValueError", value |-> NaN]
    ELSE [raised |-> "",
          value |-> ModelOutputs[((mdl.seed + WeightedSum(X, 1)) % Len(ModelOutputs)) + 1]]

-----------------------------------------------------------------------------
(* predict_strength *)

NoResult == [none |-> TRUE]

\* The record of one handler call
CallRecord(op, inp, arg, raised, message, validated, v, invoked, X, prediction, result, triple) ==
    [op |-> op, inputs |-> inp, arg |-> arg, raised |-> raised, message |-> message,
     validated |-> validated, valid |-> v.valid, errors |-> v.errors,
     model_invoked |-> invoked, X |-> X, prediction |-> prediction,
     result |-> result, triple |-> triple]

NotValidated == [valid |-> FALSE, errors |-> <<>>]
NoCall ==
    CallRecord("none", EmptyDict, NaN, "", <<>>, FALSE, NotValidated, FALSE, <<>>, NaN,
               NoResult, SinClasificar)

\* predict_strength ending in an exception
Raise(inp, raised, message, validated, v, invoked, X, prediction) ==
    CallRecord("predict_strength", inp, NaN, raised, message, validated, v, invoked, X,
               prediction, NoResult, SinClasificar)

\* a / b of two floats in tenths, rounded to 3 decimals (b is not 0)
Ratio3(a, b) ==
    IF IsNaN(a) \/ IsNaN(b) THEN NaN
    ELSE IF IsInf(a) THEN (IF IsInf(b) THEN NaN
                           ELSE IF (a.v > 0) = (b.v > 0) THEN PosInf ELSE NegInf)
    ELSE IF IsInf(b) THEN Fin(0)
    ELSE IF b.v > 0 THEN Fin(RoundHalfEven(1000 * a.v, b.v))
    ELSE Fin(RoundHalfEven(-1000 * a.v, -b.v))

\* the ratio with a cement of 0 mapped to 0.0 instead of raising
WaterCementRatioOrZero(agua, cemento) ==
    IF cemento = Fin(0) THEN [raised |-> "", value |-> Fin(0)]
    ELSE [raised |-> "", value |-> Ratio3(agua, cemento)]

\* water_cement_ratio = inputs['Agua_kg_m3'] / inputs['Cemento_kg_m3']: a float
\* division, which raises ZeroDivisionError on a divisor of 0
WaterCementRatio(agua, cemento) ==
    IF cemento = Fin(0) THEN [raised |-> "ZeroDivisionError", value |-> NaN]
    ELSE [raised |-> "", value |-> Ratio3(agua, cemento)]

\* confidence = max(0.6, min(0.95, 1 - estabilidad * 10)), in ten-thousandths
ConfidenceStrict(estabilidad) ==
    PyMax(Fin(6000), PyMin(Fin(9500), Add(Fin(10000), Neg(Scale(10, estabilidad)))))

\* the confidence without its lower clamp
ConfidenceNoFloor(estabilidad) == PyMin(Fin(9500), Add(Fin(10000), Neg(estabilidad)))

\* confidence = max(0.7, min(0.95, 1 - estabilidad)), in ten-thousandths
ConfidencePermissive(estabilidad) ==
    PyMax(Fin(7000), PyMin(Fin(9500), Add(Fin(10000), Neg(estabilidad))))

\* round(total_cementitious, 1) of a total held in units of 1/per kg/m3
\* (per = 10: tenths, per = 100: hundredths); the result is in tenths
RoundedTotal(total, per) == Round(total, per \div 10)

\* the result dict (its timestamp, datetime.now(), is read from the clock and
\* is no part of the handler's state)
Result(prediction, ratio, total, triple, confidence, edad) ==
    [none |-> FALSE,
     resistencia_predicha_kg_cm2 |-> Round(prediction, 10),
     relacion_agua_cemento |-> ratio,
     total_cementicios_kg_m3 |-> RoundedTotal(total, 10),
     clasificacion_nec |-> triple.clasificacion,
     color_clasificacion |-> triple.color,
     descripcion_nec |-> triple.descripcion,
     confianza_prediccion |-> Round(confidence, 10),
     edad_ensayo_dias |-> edad]

\* src/model_handler.py
predict_strength_strict(h, inp) ==
    IF ~h.is_loaded
    THEN Raise(inp, "RuntimeError", <<>>, FALSE, NotValidated, FALSE, <<>>, NaN)
    ELSE
    LET names == h.feature_names.val
        v == validate_inputs("strict", names, inp)
        X == [i \in 1..Len(names) |-> Get(inp, names[i])]
        out == ModelPredict(h.model.val, X)
        prediction == out.value
        triple == _classify_nec("strict", prediction)
        ratio == WaterCementRatio(Get(inp, "Agua_kg_m3"), Get(inp, "Cemento_kg_m3"))
        total == Add(Add(Get(inp, "Cemento_kg_m3"), Get(inp, "Escoria_Alto_Horno_kg_m3")),
                     Get(inp, "Ceniza_Volante_kg_m3"))
    IN  IF ~v.valid THEN Raise(inp, "ValueError", v.errors, TRUE, v, FALSE, <<>>, NaN)
        ELSE IF \E f \in Range(names) : ~Has(inp, f)
        THEN Raise(inp, "KeyError", <<>>, TRUE, v, FALSE, <<>>, NaN)
        ELSE IF \E i \in 1..Len(X) : IsNaN(X[i]) \/ IsInf(X[i])
        THEN Raise(inp, "ValueError", <<>>, TRUE, v, FALSE, X, NaN)
        ELSE IF \E i \in 1..Len(X) : Lt(X[i], Fin(0))
        THEN Raise(inp, "ValueError", <<>>, TRUE, v, FALSE, X, NaN)
        ELSE IF out.raised # ""
        THEN Raise(inp, out.raised, <<>>, TRUE, v, h.model.val.has_predict, X, NaN)
        ELSE IF IsNaN(prediction) \/ IsInf(prediction)
        THEN Raise(inp, "ValueError", <<>>, TRUE, v, TRUE, X, prediction)
        ELSE IF ~Has(inp, "Agua_kg_m3") \/ ~Has(inp, "Cemento_kg_m3")
        THEN Raise(inp, "KeyError", <<>>, TRUE, v, TRUE, X, prediction)
        ELSE IF ratio.raised # ""
        THEN Raise(inp, ratio.raised, <<>>, TRUE, v, TRUE, X, prediction)
        ELSE IF ~Has(inp, "Escoria_Alto_Horno_kg_m3") \/ ~Has(inp, "Ceniza_Volante_kg_m3")
        THEN Raise(inp, "KeyError", <<>>, TRUE, v, TRUE, X, prediction)
        ELSE IF ~h.metadata.val.has_metricas
        THEN Raise(inp, "KeyError", <<>>, TRUE, v, TRUE, X, prediction)
        ELSE IF ~Has(inp, "Edad_dias")
        THEN Raise(inp, "KeyError", <<>>, TRUE, v, TRUE, X, prediction)
        ELSE CallRecord("predict_strength", inp, NaN, "", <<>>, TRUE, v, TRUE, X, prediction,
                        Result(prediction,
                               ratio.value,
                               total, triple,
                               ConfidenceStrict(h.metadata.val.estabilidad),
                               Get(inp, "Edad_dias")),
                        triple)

\* src/model_handler_fixed.py
predict_strength_permissive(h, inp) ==
    IF ~h.is_loaded
    THEN Raise(inp, "RuntimeError", <<>>, FALSE, NotValidated, FALSE, <<>>, NaN)
    ELSE
    LET names == h.feature_names.val
        v == validate_inputs("permissive", names, inp)
        X == [i \in 1..Len(names) |-> Get(inp, names[i])]
        out == ModelPredict(h.model.val, X)
        prediction == IF Lt(out.value, Fin(0)) THEN Abs(out.value) ELSE out.value
        triple == _classify_nec("permissive", prediction)
        ratio == WaterCementRatio(Get(inp, "Agua_kg_m3"), Get(inp, "Cemento_kg_m3"))
        total == Add(Add(Get(inp, "Cemento_kg_m3"), Get(inp, "Escoria_Alto_Horno_kg_m3")),
                     Get(inp, "Ceniza_Volante_kg_m3"))
    IN  IF \E f \in Range(names) : ~Has(inp, f)
        THEN Raise(inp, "KeyError", <<>>, TRUE, v, FALSE, <<>>, NaN)
        ELSE IF out.raised # ""
        THEN Raise(inp, out.raised, <<>>, TRUE, v, TRUE, X, NaN)
        ELSE IF IsNaN(out.value) \/ IsInf(out.value)
        THEN Raise(inp, "ValueError", <<>>, TRUE, v, TRUE, X, out.value)
        ELSE IF ratio.raised # ""
        THEN Raise(inp, ratio.raised, <<>>, TRUE, v, TRUE, X, out.value)
        ELSE IF ~h.metadata.val.has_metricas
        THEN Raise(inp, "KeyError", <<>>, TRUE, v, TRUE, X, out.value)
        ELSE CallRecord("predict_strength", inp, NaN, "", <<>>, TRUE, v, TRUE, X, out.value,
                        Result(prediction,
                               ratio.value,
                               total, triple,
                               ConfidencePermissive(h.metadata.val.estabilidad),
                               Get(inp, "Edad_dias")),
                        triple)

\* every handler warning about violations and going on
predict_strength_never_blocking(m, h, inp) == predict_strength_permissive(h, inp)

\* every handler raising on a violation
predict_strength_always_blocking(m, h, inp) == predict_strength_strict(h, inp)

\* the feature vector built with inputs.get(feature, 0)
predict_strength_defaulting(m, h, inp) ==
    LET Fill(d, f) == IF Has(d, f) THEN d ELSE DictSet(d, f, Fin(0))
        filled == Fill(Fill(Fill(Fill(Fill(Fill(Fill(Fill(inp,
                      FeatureOrder[1]), FeatureOrder[2]), FeatureOrder[3]), FeatureOrder[4]),
                      FeatureOrder[5]), FeatureOrder[6]), FeatureOrder[7]), FeatureOrder[8])
        out == IF m = "strict" THEN predict_strength_strict(h, filled)
               ELSE predict_strength_permissive(h, filled)
    IN  [out EXCEPT !.inputs = inp]

\* a handler that returns a result for whatever scalar the model produced
predict_strength_unchecked(m, h, inp) ==
    LET c == IF m = "strict" THEN predict_strength_strict(h, inp)
             ELSE predict_strength_permissive(h, inp)
        triple == _classify_nec(m, c.prediction)
    IN  IF c.model_invoked /\ c.raised = "ValueError" /\ ~IsNaN(c.prediction)
        THEN [c EXCEPT !.raised = "",
                       !.triple = triple,
                       !.result = Result(c.prediction, NaN, NaN, triple, NaN,
                                         Get(inp, "Edad_dias"))]
        ELSE c

predict_strength(m, h, inp) ==
    IF m = "strict" THEN predict_strength_strict(h, inp)
    ELSE predict_strength_permissive(h, inp)

-----------------------------------------------------------------------------
(* The deployments and the Mix Designs the handlers are exercised with *)

\* how many fields of a Mix Design a caller changes before submitting it
MaxEdits == 1

Modules == {"strict", "permissive"}

Regressors == {Regressor(0, FALSE), Regressor(4, TRUE), Regressor(9, FALSE)}

\* metricas.estabilidad, in ten-thousandths: negative, zero, typical, large,
\* huge, and the non-finite values json.load accepts
Estabilidades == {Fin(-10000), Fin(0), Fin(123), Fin(1234), Fin(50000), NaN, PosInf}

TypicalDoc == MetadataDoc(TRUE, TRUE, FeatureOrder, Fin(123))

MetadataDocs ==
    {MetadataDoc(TRUE, TRUE, FeatureOrder, e) : e \in Estabilidades}
        \cup {MetadataDoc(TRUE, FALSE, FeatureOrder, NaN),
              MetadataDoc(FALSE, TRUE, <<>>, Fin(123))}

\* the files a handler is constructed over: every regressor with the typical
\* document, every document with one regressor, and a missing, a corrupt and
\* a predict-less file
Deployments ==
    (Regressors \X {TypicalDoc})
        \cup ({Regressor(0, FALSE)} \X MetadataDocs)
        \cup {<<NoModelFile, TypicalDoc>>, <<Regressor(0, FALSE), NoMetadataFile>>,
              <<CorruptModelFile, TypicalDoc>>, <<PlainObject, TypicalDoc>>,
              <<Regressor(0, FALSE), CorruptMetadataFile>>}

\* "C20 - Uso General" of get_preset_mixes (the same in both files), in tenths
PresetC20 ==
    DictOf(FeatureOrder,
           [ Cemento_kg_m3            |-> Fin(2800),
             Escoria_Alto_Horno_kg_m3 |-> Fin(700),
             Ceniza_Volante_kg_m3     |-> Fin(0),
             Agua_kg_m3               |-> Fin(1750),
             Superplastificante_kg_m3 |-> Fin(25),
             Agregado_Grueso_kg_m3    |-> Fin(9500),
             Agregado_Fino_kg_m3      |-> Fin(7500),
             Edad_dias                |-> Fin(280) ])

\* every field at its max (the fields of S) or at its min (the others)
BoundaryMix(m, S) ==
    DictOf(FeatureOrder, [f \in Features |-> IF f \in S THEN MaxOf(m, f) ELSE MinOf(m, f)])

\* the values a caller writes into a field: around every bound of the
\* handler's table, zero, a negative value, NaN and the infinities
EditValues(m, f) ==
    LET lo == 10 * VALID_RANGES(m)[f][1]
        hi == 10 * VALID_RANGES(m)[f][2]
        w  == VALID_RANGES(m)[f][2] - VALID_RANGES(m)[f][1]
    IN  {Fin(n) : n \in {lo - 1, lo, hi, hi + 1, lo - w - 1, lo - w, hi + w, hi + w + 1, 0, -1}}
            \cup {NaN, PosInf, NegInf}

\* the strengths _classify_nec is called with directly, in thousandths
Strengths == Range(ModelOutputs) \cup {Fin(-1), Fin(1), Fin(139995), Fin(280001)}

-----------------------------------------------------------------------------
(* The state machine *)

TheHandler == Handler(model, metadata, feature_names, is_loaded)

\* 'timestamp': datetime.now().isoformat(), read when the result dict is built
Stamp(c, now) ==
    IF c.result.none THEN c ELSE [c EXCEPT !.result = [timestamp |-> now] @@ c.result]

\* a handler whose failing predict_strength marks it as not loaded
AfterCallUnloading(op, h, c) ==
    IF op = "predict_strength" /\ c.raised # "" THEN [h EXCEPT !.is_loaded = FALSE] ELSE h

\* The fields of the handler when operation op has ended with outcome c:
\* validate_inputs, predict_strength, get_model_info, get_feature_importance,
\* get_preset_mixes and _classify_nec hold no assignment to self.model,
\* self.metadata, self.feature_names or self.is_loaded, and do not call
\* _load_model_and_metadata
AfterCall(op, h, c) == h

\* the handler's fields become those of h
HandlerBecomes(h) ==
    /\ model' = h.model
    /\ metadata' = h.metadata
    /\ feature_names' = h.feature_names
    /\ is_loaded' = h.is_loaded
    /\ UNCHANGED <<module, model_file, metadata_file>>

\* a call of the handler that takes no Mix Design
PlainCall(op, raised) ==
    CallRecord(op, EmptyDict, NaN, raised, <<>>, FALSE, NotValidated, FALSE, <<>>, NaN,
               NoResult, SinClasificar)

\* a returned dict, by the number of its entries
Mapping(n) == [none |-> FALSE, entries |-> n]

\* a call that returns a dict of n entries
MappingCall(op, n) == [PlainCall(op, "") EXCEPT !.result = Mapping(n)]

\* get_model_info reading the metadata whatever is_loaded says
get_model_info_reading(h) ==
    IF h.metadata.none THEN PlainCall("get_model_info", "TypeError")
    ELSE IF ~h.metadata.val.has_modelo_info \/ ~h.metadata.val.has_metricas
    THEN PlainCall("get_model_info", "KeyError")
    ELSE MappingCall("get_model_info", 9)

\* get_model_info: {} when not loaded, else a dict of nine entries read from
\* metadata['modelo_info'] and metadata['metricas']
get_model_info(h) ==
    IF ~h.is_loaded THEN MappingCall("get_model_info", 0)
    ELSE IF ~h.metadata.val.has_modelo_info \/ ~h.metadata.val.has_metricas
    THEN PlainCall("get_model_info", "KeyError")
    ELSE MappingCall("get_model_info", 9)

\* get_feature_importance: {} when not loaded or when the model object has
\* no feature_importances_, else one entry per feature name
get_feature_importance(h, has_importances) ==
    IF ~h.is_loaded \/ ~has_importances THEN MappingCall("get_feature_importance", 0)
    ELSE MappingCall("get_feature_importance", Len(h.feature_names.val))

\* the values of the variables a specification does not use
NoProbe == [s1 |-> NaN, s2 |-> NaN, c1 |-> NaN, c2 |-> NaN, module |-> "none"]
NoWidget == [min_val |-> 0, max_val |-> 0, decimals |-> 0, slider |-> 0, spinbox |-> 0]
NoWidgetOp == [op |-> "none", arg |-> 0]
\* what the result panel shows before any prediction: the gauge at 0 and
\* the cards at their "--" placeholders
InitialDisplay == [gauge |-> Fin(0), cards |-> NoResult]
NoApp == [state |-> "none", status |-> 0, display |-> InitialDisplay]
NoEvent == [op |-> "none", arg |-> "", errors |-> 0, infos |-> 0]

NoSession ==
    /\ app = NoApp
    /\ sliders = <<>>
    /\ presets_combo = ""
    /\ current_prediction = NoResult
    /\ prediction_history = <<>>
    /\ event = NoEvent
    /\ reported = 0

\* the handler the constructor leaves over the files of deployment d
Constructed(d) ==
    /\ model_file = d[1]
    /\ metadata_file = d[2]
    /\ LET h == Load(module, model_file, metadata_file)
       IN  /\ model = h.model
           /\ metadata = h.metadata
           /\ feature_names = h.feature_names
           /\ is_loaded = h.is_loaded

\* ConcreteModelHandler(): the state after construction
Init ==
    /\ module \in Modules
    /\ \E d \in Deployments : Constructed(d)
    /\ pc = "idle"
    /\ inputs = EmptyDict
    /\ edits = 0
    /\ call = NoCall
    /\ clock = 0
    /\ seen = NoCall
    /\ probe = NoProbe
    /\ widget = NoWidget
    /\ widget_op = NoWidgetOp
    /\ NoSession

\* the caller starts from the preset and may still change fields
NewMix ==
    /\ pc = "idle"
    /\ pc' = "building"
    /\ inputs' = PresetC20
    /\ edits' = 0
    /\ call' = NoCall
    /\ UNCHANGED <<handlerVars, clock, probeVars, widgetVars, guiVars>>

\* the caller takes a Mix Design with every field at a bound of the table,
\* or an empty one, and submits it as it is
NewBoundaryMix ==
    /\ pc = "idle"
    /\ pc' = "building"
    /\ \/ \E S \in SUBSET Features : inputs' = BoundaryMix(module, S)
       \/ inputs' = EmptyDict
    /\ edits' = MaxEdits
    /\ call' = NoCall
    /\ UNCHANGED <<handlerVars, clock, probeVars, widgetVars, guiVars>>

\* the caller takes the preset without one field and with another field
\* overwritten, and submits it as it is
NewPartialMix ==
    /\ pc = "idle"
    /\ pc' = "building"
    /\ \E f \in Features : \E g \in Features \ {f} : \E v \in EditValues(module, g) :
           inputs' = DictSet(DictDel(PresetC20, f), g, v)
    /\ edits' = MaxEdits
    /\ call' = NoCall
    /\ UNCHANGED <<handlerVars, clock, probeVars, widgetVars, guiVars>>

\* inputs[f] = v
SetField ==
    /\ pc = "building"
    /\ edits < MaxEdits
    /\ \E f \in Features : \E v \in EditValues(module, f) :
           inputs' = DictSet(inputs, f, v)
    /\ edits' = edits + 1
    /\ UNCHANGED <<handlerVars, pc, call, clock, probeVars, widgetVars, guiVars>>

\* del inputs[f]
DelField ==
    /\ pc = "building"
    /\ edits < MaxEdits
    /\ \E f \in Range(inputs.keys) : inputs' = DictDel(inputs, f)
    /\ edits' = edits + 1
    /\ UNCHANGED <<handlerVars, pc, call, clock, probeVars, widgetVars, guiVars>>

\* handler.validate_inputs(inputs); with feature_names = None the first loop
\* raises TypeError
ValidateInputs ==
    /\ pc = "building"
    /\ pc' = "called"
    /\ call' =
         IF feature_names.none
         THEN CallRecord("validate_inputs", inputs, NaN, "TypeError", <<>>, FALSE,
                         NotValidated, FALSE, <<>>, NaN, NoResult, SinClasificar)
         ELSE CallRecord("validate_inputs", inputs, NaN, "", <<>>, TRUE,
                         validate_inputs(module, feature_names.val, inputs),
                         FALSE, <<>>, NaN, NoResult, SinClasificar)
    /\ HandlerBecomes(AfterCall("validate_inputs", TheHandler, call'))
    /\ UNCHANGED <<inputs, edits, clock, probeVars, widgetVars, guiVars>>

\* handler.predict_strength(inputs)
PredictStrength ==
    /\ pc = "building"
    /\ pc' = "called"
    /\ call' = Stamp(predict_strength(module, TheHandler, inputs), clock)
    /\ HandlerBecomes(AfterCall("predict_strength", TheHandler, call'))
    /\ UNCHANGED <<inputs, edits, clock, probeVars, widgetVars, guiVars>>

\* handler._classify_nec(strength)
ClassifyNec ==
    /\ pc = "idle"
    /\ pc' = "called"
    /\ \E strength \in Strengths :
           call' = CallRecord("_classify_nec", EmptyDict, strength, "", <<>>, FALSE,
                              NotValidated, FALSE, <<>>, NaN, NoResult,
                              _classify_nec(module, strength))
    /\ HandlerBecomes(AfterCall("_classify_nec", TheHandler, call'))
    /\ UNCHANGED <<inputs, edits, clock, probeVars, widgetVars, guiVars>>

\* handler.get_model_info()
GetModelInfo ==
    /\ pc = "idle"
    /\ pc' = "called"
    /\ call' = get_model_info(TheHandler)
    /\ HandlerBecomes(AfterCall("get_model_info", TheHandler, call'))
    /\ UNCHANGED <<inputs, edits, clock, probeVars, widgetVars, guiVars>>

\* handler.get_feature_importance(); whether the model object has
\* feature_importances_ is a property of the artifact
GetFeatureImportance ==
    /\ pc = "idle"
    /\ pc' = "called"
    /\ \E has_importances \in BOOLEAN :
           call' = get_feature_importance(TheHandler, has_importances)
    /\ HandlerBecomes(AfterCall("get_feature_importance", TheHandler, call'))
    /\ UNCHANGED <<inputs, edits, clock, probeVars, widgetVars, guiVars>>

\* handler.get_preset_mixes(): a fresh dict literal
GetPresetMixes ==
    /\ pc = "idle"
    /\ pc' = "called"
    /\ call' = PlainCall("get_preset_mixes", "")
    /\ HandlerBecomes(AfterCall("get_preset_mixes", TheHandler, call'))
    /\ UNCHANGED <<inputs, edits, clock, probeVars, widgetVars, guiVars>>

\* the caller is done with the outcome
Return ==
    /\ pc = "called"
    /\ pc' = "idle"
    /\ inputs' = EmptyDict
    /\ edits' = 0
    /\ call' = NoCall
    /\ UNCHANGED <<handlerVars, clock, probeVars, widgetVars, guiVars>>

Next ==
    \/ NewMix
    \/ NewBoundaryMix
    \/ NewPartialMix
    \/ SetField
    \/ DelField
    \/ ValidateInputs
    \/ PredictStrength
    \/ ClassifyNec
    \/ GetModelInfo
    \/ GetFeatureImportance
    \/ GetPresetMixes
    \/ Return

Spec == Init /\ [][Next]_vars

-----------------------------------------------------------------------------
(* Properties *)

Returned == call.raised = ""
PredictCall == call.op = "predict_strength"
ValidateCall == call.op = "validate_inputs"
ClassifyCall == call.op = "_classify_nec"

\* the fields of Features the Mix Design of the call lacks
AbsentFields == {f \in Features : ~Has(call.inputs, f)}
Complete == AbsentFields = {}

\* strength lies in [lo, hi) of band b, by the numbers of the table
Contains(b, strength) ==
    /\ IsFinite(strength)
    /\ b.lo.v <= strength.v
    /\ (IsFinite(b.hi) => strength.v < b.hi.v)

BandsHolding(strength) ==
    {i \in 1..Len(NEC_CLASSIFICATION(module)) :
        Contains(NEC_CLASSIFICATION(module)[i], strength)}

\* C1: _classify_nec returns, for every finite strength >= 0, the triple of
\* the one band whose [lo, hi) holds the value (a value equal to a band's lo
\* goes to that band), and the fallback triple only for a value no band holds.
C1_ClassifyTotal ==
    ClassifyCall =>
        /\ (IsFinite(call.arg) /\ call.arg.v >= 0 =>
                /\ Cardinality(BandsHolding(call.arg)) = 1
                /\ \A i \in BandsHolding(call.arg) :
                       /\ call.triple.clasificacion = NEC_CLASSIFICATION(module)[i].clasificacion
                       /\ call.triple.color = NEC_CLASSIFICATION(module)[i].color
                       /\ call.triple.descripcion = NEC_CLASSIFICATION(module)[i].descripcion)
        /\ (call.triple.clasificacion = "Sin Clasificar" <=> BandsHolding(call.arg) = {})
        /\ (call.triple.clasificacion = "Sin Clasificar" =>
                ~(IsFinite(call.arg) /\ call.arg.v >= 0))

\* a strength equal to the lo of the second band is classified into it
C1_Witness ==
    /\ ClassifyCall
    /\ module = "permissive"
    /\ call.arg = Fin(140000)
    /\ call.triple.clasificacion = "Resistencia Normal"

\* C2: for every Mix Design with cement > 0 for which predict_strength
\* returns a result, in either handler, resistencia_predicha_kg_cm2 is finite
\* and non-negative whatever scalar the model produced.
C2_StrengthFiniteNonNegative ==
    (PredictCall /\ Returned /\ Lt(Fin(0), Get(call.inputs, "Cemento_kg_m3"))) =>
        /\ IsFinite(call.result.resistencia_predicha_kg_cm2)
        /\ call.result.resistencia_predicha_kg_cm2.v >= 0

\* C3: the confidence placed in a result lies within the clamp bounds of the
\* handler that produced it, [0.7, 0.95] (permissive) or [0.6, 0.95]
\* (strict), for every estabilidad.
C3_ConfidenceClamped ==
    (PredictCall /\ Returned) =>
        /\ IsFinite(call.result.confianza_prediccion)
        /\ call.result.confianza_prediccion.v <= 950
        /\ call.result.confianza_prediccion.v >= (IF module = "strict" THEN 600 ELSE 700)

\* a result of the permissive handler over a metadata whose estabilidad is 5.0
C3_Witness ==
    /\ PredictCall
    /\ Returned
    /\ module = "permissive"
    /\ metadata.val.estabilidad = Fin(50000)
    /\ call.result.confianza_prediccion = Fin(700)

\* the entries of the returned list that report field f as absent
MissingEntries(f) ==
    {i \in 1..Len(call.errors) :
        call.errors[i].kind = "Falta la variable" /\ call.errors[i].feature = f}

\* C4: validate_inputs returns valid = false, with one 'Falta la variable'
\* entry per absent field, whenever the Mix Design lacks a field of
\* feature_names, whatever the values of the fields it has.
C4_MissingFieldInvalid ==
    (ValidateCall /\ Returned /\ AbsentFields # {}) =>
        /\ ~call.valid
        /\ \A f \in Features :
               Cardinality(MissingEntries(f)) = (IF f \in AbsentFields THEN 1 ELSE 0)

\* one field absent and a NaN in one of the fields present
C4_Witness ==
    /\ ValidateCall
    /\ Returned
    /\ Cardinality(AbsentFields) = 1
    /\ \E f \in Features \ AbsentFields : IsNaN(Get(call.inputs, f))
    /\ ~call.valid

\* C5: strict validation has inclusive bounds: a Mix Design with all eight
\* fields, each at the min or the max of its VALID_RANGES entry, is valid with
\* no violation; a field strictly below min or strictly above max makes it
\* invalid.
C5_StrictBoundsInclusive ==
    (ValidateCall /\ Returned /\ module = "strict") =>
        /\ (/\ Complete
            /\ \A f \in Features :
                   \/ Get(call.inputs, f) = Fin(10 * VALID_RANGES_strict[f][1])
                   \/ Get(call.inputs, f) = Fin(10 * VALID_RANGES_strict[f][2]))
               => (call.valid /\ call.errors = <<>>)
        /\ (\E f \in Features \ AbsentFields :
                \/ Lt(Get(call.inputs, f), Fin(10 * VALID_RANGES_strict[f][1]))
                \/ Lt(Fin(10 * VALID_RANGES_strict[f][2]), Get(call.inputs, f)))
               => ~call.valid

\* cement and age at their max, every other field at its min: valid
C5_Witness ==
    /\ ValidateCall
    /\ Returned
    /\ module = "strict"
    /\ call.inputs = BoundaryMix("strict", {"Cemento_kg_m3", "Edad_dias"})
    /\ call.valid

\* C6: in the strict handler a Mix Design that fails validate_inputs never
\* reaches the model: predict_strength raises an error carrying the violation
\* list, model.predict is not invoked and no result is returned.
C6_StrictBlocksInvalid ==
    (/\ PredictCall
     /\ module = "strict"
     /\ is_loaded
     /\ ~validate_inputs("strict", feature_names.val, call.inputs).valid)
        => /\ call.raised = "ValueError"
           /\ call.message = validate_inputs("strict", feature_names.val, call.inputs).errors
           /\ call.message # <<>>
           /\ ~call.model_invoked
           /\ call.result.none

\* a complete Mix Design with one field out of range, refused
C6_Witness ==
    /\ PredictCall
    /\ module = "strict"
    /\ Complete
    /\ call.raised = "ValueError"
    /\ Len(call.message) = 1
    /\ call.message[1].kind = "fuera del rango"

\* the entries of the returned list that report field f as out of range
RangeEntries(f) ==
    {i \in 1..Len(call.errors) :
        call.errors[i].kind = "fuera del rango" /\ call.errors[i].feature = f}

\* v, in tenths, lies in [max(0, min - 0.1 (max - min)), max + 0.1 (max - min)]
\* of the permissive table, by the numbers of the table
WithinExtended(f, value) ==
    LET lo == VALID_RANGES_permissive[f][1]
        hi == VALID_RANGES_permissive[f][2]
    IN  /\ IsFinite(value)
        /\ value.v >= 0
        /\ value.v >= 10 * lo - (hi - lo)
        /\ value.v <= 10 * hi + (hi - lo)

\* C7: the permissive validate_inputs accepts a field value v with table
\* entry (min, max) exactly when
\* max(0, min - 0.1 (max - min)) <= v <= max + 0.1 (max - min): the lower
\* bound is never below 0 and both bounds are inclusive.
C7_PermissiveExtendedRange ==
    (ValidateCall /\ Returned /\ module = "permissive") =>
        \A f \in Features \ AbsentFields :
            /\ (RangeEntries(f) = {} <=> WithinExtended(f, Get(call.inputs, f)))
            /\ Cardinality(RangeEntries(f)) <= 1

\* cement at its extended maximum 583.8, accepted
C7_Witness ==
    /\ ValidateCall
    /\ Returned
    /\ module = "permissive"
    /\ Complete
    /\ Get(call.inputs, "Cemento_kg_m3") = Fin(5838)
    /\ call.valid

\* some field of the Mix Design of the call is outside its extended range
OutsideExtended ==
    \E f \in Features \ AbsentFields : ~WithinExtended(f, Get(call.inputs, f))

\* the feature vector of the call's Mix Design, in the handler's order
VectorOf(d) == [i \in 1..Len(FeatureOrder) |-> Get(d, FeatureOrder[i])]

\* the model answers the call's Mix Design with a finite scalar
ModelAnswersFinite ==
    /\ ModelPredict(model.val, VectorOf(call.inputs)).raised = ""
    /\ IsFinite(ModelPredict(model.val, VectorOf(call.inputs)).value)

\* C8 as stated: in the permissive handler, for a complete Mix Design with any
\* field outside its extended range, predict_strength still invokes the model
\* and returns a result.
C8_Original ==
    (/\ PredictCall
     /\ module = "permissive"
     /\ is_loaded
     /\ metadata.val.has_metricas
     /\ Complete
     /\ OutsideExtended
     /\ ModelAnswersFinite)
        => (call.model_invoked /\ Returned /\ ~call.result.none)

\* C8 (amended): in the permissive handler a range violation does not block
\* prediction: for a complete Mix Design with any field outside its extended
\* range, predict_strength of a loaded handler still invokes the model, and
\* returns a result whenever the model answers with a finite scalar, cement is
\* not 0 and the metadata holds metricas.
C8_RangeViolationDoesNotBlock ==
    (/\ PredictCall
     /\ module = "permissive"
     /\ is_loaded
     /\ Complete
     /\ OutsideExtended)
        => /\ call.model_invoked
           /\ call.validated
           /\ ~call.valid
           /\ (/\ ModelAnswersFinite
               /\ Get(call.inputs, "Cemento_kg_m3") # Fin(0)
               /\ metadata.val.has_metricas)
                  => (Returned /\ ~call.result.none)

\* a result returned for a Mix Design whose age is beyond its extended range
C8_Witness ==
    /\ PredictCall
    /\ module = "permissive"
    /\ Complete
    /\ ~WithinExtended("Edad_dias", Get(call.inputs, "Edad_dias"))
    /\ ~call.valid
    /\ call.model_invoked
    /\ Returned
    /\ ~call.result.none

\* C9: under either policy predict_strength never returns a result for a Mix
\* Design that lacks a required field: the call ends in an error and the
\* model is not invoked.
C9_MissingFieldNeverPredicted ==
    (PredictCall /\ AbsentFields # {}) =>
        /\ call.raised # ""
        /\ ~call.model_invoked
        /\ call.result.none

\* the permissive handler warns about the absent field and then fails on it
C9_Witness ==
    /\ PredictCall
    /\ module = "permissive"
    /\ is_loaded
    /\ Cardinality(AbsentFields) = 1
    /\ call.validated
    /\ call.raised = "KeyError"

\* some field of the Mix Design of the call is NaN, infinite or negative
InvalidNumeric ==
    \E f \in Features \ AbsentFields :
        \/ ~IsFinite(Get(call.inputs, f))
        \/ Get(call.inputs, f).v < 0

\* C10: predict_strength rejects with an error, before the model is invoked,
\* every Mix Design in which one of the eight features is NaN, infinite or
\* negative, and returns no result for it, in both handlers.
C10_InvalidNumericRejected ==
    (PredictCall /\ InvalidNumeric) =>
        /\ call.raised # ""
        /\ ~call.model_invoked
        /\ call.result.none

\* the Mix Design of the call has a cement of 0
NoCement ==
    Has(call.inputs, "Cemento_kg_m3") /\ Get(call.inputs, "Cemento_kg_m3") = Fin(0)

\* C11 as stated: when cement = 0, predict_strength of a loaded handler, given
\* a complete Mix Design, surfaces a division-by-zero error and returns no
\* result.
C11_Original ==
    (PredictCall /\ is_loaded /\ Complete /\ NoCement) =>
        (call.raised = "ZeroDivisionError" /\ call.result.none)

\* C11 (amended): when cement = 0, predict_strength ends in an error and
\* returns no result, so no result ever carries a ratio substituted for the
\* division by 0.  The error is the division's ZeroDivisionError in the
\* permissive handler, when it is loaded, the Mix Design is complete and the
\* model answers a finite scalar; in the loaded strict handler it is the
\* ValueError of the range validation, raised before the model is invoked.
C11_NoCementNoResult ==
    (PredictCall /\ NoCement) =>
        /\ call.raised # ""
        /\ call.result.none
        /\ (module = "permissive" /\ is_loaded /\ Complete /\ ModelAnswersFinite)
               => (call.raised = "ZeroDivisionError" /\ call.model_invoked)
        /\ (module = "strict" /\ is_loaded)
               => (call.raised = "ValueError" /\ ~call.model_invoked)

\* the permissive handler reaching the division with a cement of 0
C11_Witness ==
    /\ PredictCall
    /\ module = "permissive"
    /\ Complete
    /\ NoCement
    /\ call.model_invoked
    /\ call.raised = "ZeroDivisionError"
    /\ call.result.none

\* the files hold what a load needs: a model object that can predict and a
\* JSON document with the top-level keys modelo_info and metricas
ArtifactsSound ==
    /\ model_file.kind = "object"
    /\ model_file.has_predict
    /\ metadata_file.kind = "json"
    /\ metadata_file.has_modelo_info
    /\ metadata_file.has_metricas

\* C12: loading fails (the handler does not become loaded) whenever a path
\* does not exist, deserialization raises, the object has no predict, or the
\* metadata lacks the key modelo_info or metricas: is_loaded is true only
\* when none of these hold.
C12_LoadedOnlyWhenSound == is_loaded => ArtifactsSound

\* C16: after load no handler operation (validate_inputs, predict_strength,
\* get_model_info, get_feature_importance, get_preset_mixes, _classify_nec),
\* successful or failing, changes model, metadata, feature_names or
\* is_loaded: at every moment the four fields are the ones the constructor
\* left over the two files, which it loads once.  (VALID_RANGES and
\* NEC_CLASSIFICATION are class-level tables no method assigns to.)
C16_HandlerNeverMutated ==
    /\ TheHandler = Load(module, model_file, metadata_file)
    /\ call.op \in {"none", "validate_inputs", "predict_strength", "get_model_info",
                    "get_feature_importance", "get_preset_mixes", "_classify_nec"}

\* a loaded handler after a predict_strength that raised
C16_Witness ==
    /\ PredictCall
    /\ call.model_invoked
    /\ call.raised # ""
    /\ is_loaded
    /\ model = Some(model_file)
    /\ metadata = Some(metadata_file)

-----------------------------------------------------------------------------
(* The confidence formula, on its own *)

\* no handler has been constructed
Unbuilt ==
    /\ model_file = NoModelFile
    /\ metadata_file = NoMetadataFile
    /\ model = None
    /\ metadata = None
    /\ feature_names = None
    /\ is_loaded = FALSE

\* no caller holds a Mix Design or an outcome
NoCaller ==
    /\ pc = "idle"
    /\ inputs = EmptyDict
    /\ edits = 0
    /\ call = NoCall

\* stability values, in ten-thousandths: below, at, inside and above the
\* window in which each formula is not clamped, and the non-finite values
Stabilities ==
    {Fin(n) : n \in {-10000, 0, 50, 123, 124, 300, 400, 500, 1234, 2000, 3000, 50000}}
        \cup {NaN, PosInf, NegInf}

\* a confidence that rises with the stability value
ConfidenceRising(m, estabilidad) ==
    Round(PyMax(Fin(6000), PyMin(Fin(9500), estabilidad)), 10)

\* 'confianza_prediccion': round(confidence, 3), in thousandths
ReportedConfidence(m, estabilidad) ==
    Round(IF m = "strict" THEN ConfidenceStrict(estabilidad)
          ELSE ConfidencePermissive(estabilidad), 10)

ConfidenceInit ==
    /\ module \in Modules
    /\ Unbuilt
    /\ NoCaller
    /\ clock = 0
    /\ seen = NoCall
    /\ probe = NoProbe
    /\ widget = NoWidget
    /\ widget_op = NoWidgetOp
    /\ NoSession

\* the confidence of one handler's formula for two stability values
ComputeConfidence ==
    /\ \E s1 \in Stabilities : \E s2 \in Stabilities :
           probe' = [s1 |-> s1, s2 |-> s2,
                     c1 |-> ReportedConfidence(module, s1),
                     c2 |-> ReportedConfidence(module, s2),
                     module |-> module]
    /\ UNCHANGED <<handlerVars, callerVars, clock, seen, widgetVars, guiVars>>

ConfidenceNext == ComputeConfidence

SpecConfidence == ConfidenceInit /\ [][ConfidenceNext]_vars

\* C19 as stated: for any two stability values s1 < s2 the confidence
\* computed for s1 is greater than the confidence computed for s2.
C19_Original ==
    (probe.module # "none" /\ Lt(probe.s1, probe.s2)) => Lt(probe.c2, probe.c1)

\* C19 (amended): the reported confidence never rises with the stability
\* value: for any two stability values s1 < s2 the confidence computed for s1
\* is greater than or equal to the one computed for s2, in each handler's
\* formula; it is equal wherever both values are clamped to the same bound.
C19_ConfidenceNonIncreasing ==
    (probe.module # "none" /\ Lt(probe.s1, probe.s2)) =>
        /\ Le(probe.c2, probe.c1)
        /\ IsFinite(probe.c1)
        /\ IsFinite(probe.c2)

\* two stability values inside the window of the permissive formula, the
\* lower one with the strictly higher confidence
C19_Witness ==
    /\ probe.module = "permissive"
    /\ probe.s1 = Fin(1234)
    /\ probe.s2 = Fin(2000)
    /\ probe.c1 = Fin(877)
    /\ probe.c2 = Fin(800)

-----------------------------------------------------------------------------
(* get_preset_mixes of src/model_handler_fixed.py *)

Mix(cemento, escoria, ceniza, agua, superplast, grueso, fino, edad) ==
    DictOf(FeatureOrder,
           [ Cemento_kg_m3            |-> Fin(cemento),
             Escoria_Alto_Horno_kg_m3 |-> Fin(escoria),
             Ceniza_Volante_kg_m3     |-> Fin(ceniza),
             Agua_kg_m3               |-> Fin(agua),
             Superplastificante_kg_m3 |-> Fin(superplast),
             Agregado_Grueso_kg_m3    |-> Fin(grueso),
             Agregado_Fino_kg_m3      |-> Fin(fino),
             Edad_dias                |-> Fin(edad) ])

\* the dict of presets, in its order, values in tenths
get_preset_mixes ==
    << [name |-> "C20 - Uso General",
        values |-> Mix(2800, 700, 0, 1750, 25, 9500, 7500, 280)],
       [name |-> "C25 - Estructural",
        values |-> Mix(3200, 800, 200, 1650, 40, 9750, 7750, 280)],
       [name |-> "Test del Notebook",
        values |-> Mix(2000, 2000, 1000, 1300, 250, 10000, 7000, 280)],
       [name |-> "C30 - Alta Resistencia",
        values |-> Mix(3800, 950, 450, 1550, 65, 10000, 8000, 280)] >>

PresetNames == {get_preset_mixes[i].name : i \in 1..Len(get_preset_mixes)}

\* presets[name]
PresetValues(name) ==
    get_preset_mixes[CHOOSE i \in 1..Len(get_preset_mixes) : get_preset_mixes[i].name = name].values

-----------------------------------------------------------------------------
(* One handler asked again and again *)

\* how far the wall clock advances
MaxClock == 2

\* the Mix Designs a caller repeats: the presets, one with no cement and one
\* without its age
RepeatMixes ==
    {PresetValues(n) : n \in PresetNames}
        \cup {DictSet(PresetC20, "Cemento_kg_m3", Fin(0)), DictDel(PresetC20, "Edad_dias")}

RepeatInit ==
    /\ module \in Modules
    /\ \E d \in (Regressors \X {TypicalDoc})
                    \cup {<<Regressor(0, FALSE), MetadataDoc(TRUE, FALSE, FeatureOrder, NaN)>>} :
           Constructed(d)
    /\ NoCaller
    /\ clock = 0
    /\ seen = NoCall
    /\ probe = NoProbe
    /\ widget = NoWidget
    /\ widget_op = NoWidgetOp
    /\ NoSession

\* the caller builds one of the Mix Designs it repeats
TakeMix ==
    /\ pc = "idle"
    /\ pc' = "building"
    /\ \E mix \in RepeatMixes : inputs' = mix
    /\ edits' = MaxEdits
    /\ call' = NoCall
    /\ UNCHANGED <<handlerVars, clock, probeVars, widgetVars, guiVars>>

\* the caller keeps the outcome of a predict_strength call to compare
\* later ones with it
Keep ==
    /\ pc = "called"
    /\ call.op = "predict_strength"
    /\ seen # call
    /\ seen' = call
    /\ UNCHANGED <<handlerVars, callerVars, clock, probe, widgetVars, guiVars>>

\* time passes
Tick ==
    /\ clock < MaxClock
    /\ clock' = clock + 1
    /\ UNCHANGED <<handlerVars, callerVars, probeVars, widgetVars, guiVars>>

RepeatNext ==
    \/ TakeMix
    \/ PredictStrength
    \/ Keep
    \/ Return
    \/ Tick

SpecRepeat == RepeatInit /\ [][RepeatNext]_vars

\* the outcome of a call without the creation time of its result
Untimed(c) ==
    IF c.result.none THEN c ELSE [c EXCEPT !.result = [timestamp |-> 0] @@ c.result]

\* the call at hand repeats the Mix Design of the call kept
Repeated ==
    /\ call.op = "predict_strength"
    /\ seen.op = "predict_strength"
    /\ call.inputs = seen.inputs

-----------------------------------------------------------------------------
(* SliderSpinBoxWidget of src/ui_components.py *)

\* Widget values (min_val, max_val, the spin box, the arguments of set_value)
\* are floats in hundredths; the slider holds an integer position, one step
\* being 10^-decimals.  The widgets of the source have decimals 0 or 1.

\* self.multiplier = 10 ** decimals
Multiplier(w) == IF w.decimals = 0 THEN 1 ELSE 10

\* hundredths per slider step
Step(w) == 100 \div Multiplier(w)

\* int(x) of n / d: truncation toward zero
Trunc(n, d) == IF n >= 0 THEN n \div d ELSE -((-n) \div d)

\* QSlider.setValue: the position, kept within the slider's minimum and
\* maximum, int(min_val * multiplier) and int(max_val * multiplier)
SliderSetValue(w, p) ==
    LET lo == Trunc(w.min_val.v, Step(w))
        hi == Trunc(w.max_val.v, Step(w))
    IN  IF p < lo THEN lo ELSE IF p > hi THEN hi ELSE p

\* QSpinBox.setValue / QDoubleSpinBox.setValue of a finite value: a
\* QDoubleSpinBox rounds to its decimals (no value used here is a tie), and
\* both keep the value within the spin box's minimum and maximum
SpinBoxSetValue(w, v) ==
    LET r == IF w.decimals > 0 THEN Fin(Step(w) * RoundHalfEven(v.v, Step(w))) ELSE v
    IN  IF Lt(r, w.min_val) THEN w.min_val
        ELSE IF Lt(w.max_val, r) THEN w.max_val
        ELSE r

\* int(value): what the code hands to a QSpinBox
IntValue(v) == Fin(100 * Trunc(v.v, 100))

\* the slider following the user's drag while the spin box stays as it was
_on_slider_changed_silent(w, value) == [w EXCEPT !.slider = value]

\* _on_slider_changed(value): the slider is at `value`; the spin box follows
_on_slider_changed(w, value) ==
    LET float_value == Fin(value * Step(w))
    IN  [w EXCEPT !.slider = value,
                  !.spinbox = IF w.decimals > 0 THEN SpinBoxSetValue(w, float_value)
                              ELSE SpinBoxSetValue(w, IntValue(float_value))]

\* _on_spinbox_changed(value): the spin box is at `value`; the slider follows
_on_spinbox_changed(w, value) ==
    [w EXCEPT !.spinbox = value,
              !.slider = SliderSetValue(w, Trunc(value.v, Step(w)))]

\* set_value(value)
set_value(w, value) ==
    LET clamped == PyMax(w.min_val, PyMin(w.max_val, value))
    IN  [w EXCEPT !.slider = SliderSetValue(w, Trunc(clamped.v, Step(w))),
                  !.spinbox = IF w.decimals > 0 THEN SpinBoxSetValue(w, clamped)
                              ELSE SpinBoxSetValue(w, IntValue(clamped))]

\* get_value()
get_value(w) == w.spinbox

\* SliderSpinBoxWidget(label, min_val, max_val, initial_val, decimals), the
\* arguments in whole units (initial_val in hundredths): _setup_ui, then
\* set_value(initial_val)
NewWidget(min_val, max_val, initial_val, decimals) ==
    LET blank == [min_val |-> Fin(100 * min_val), max_val |-> Fin(100 * max_val),
                  decimals |-> decimals, slider |-> 0, spinbox |-> Fin(0)]
        setup == [blank EXCEPT
                     !.slider = SliderSetValue(blank, Trunc(initial_val, Step(blank))),
                     !.spinbox = SpinBoxSetValue(blank, Fin(initial_val))]
    IN  set_value(setup, Fin(initial_val))

\* the widgets the source constructs: the one of the tests and the eight of
\* the main window
WidgetSamples ==
    {NewWidget(0, 100, 5000, 0),
     NewWidget(150, 500, 28000, 0), NewWidget(0, 300, 0, 0), NewWidget(0, 200, 0, 0),
     NewWidget(130, 220, 17500, 0), NewWidget(0, 25, 250, 1),
     NewWidget(850, 1100, 97500, 0), NewWidget(650, 900, 77500, 0),
     NewWidget(1, 365, 2800, 0)}

\* arguments of set_value: the bounds, one unit outside them, inner values on
\* and off the widget's grid, NaN and the infinities
SetValueArgs(w) ==
    {Fin(n) : n \in {w.min_val.v - 100, w.min_val.v, w.min_val.v + 500,
                     w.min_val.v + 530, w.min_val.v + 557, w.max_val.v - 3,
                     w.max_val.v, w.max_val.v + 100}}
        \cup {NaN, PosInf, NegInf}

\* positions the user drags the slider to
SliderPositions(w) ==
    {Trunc(w.min_val.v, Step(w)), Trunc(w.min_val.v, Step(w)) + 7,
     Trunc(w.max_val.v, Step(w)) - 1, Trunc(w.max_val.v, Step(w))}

\* values the user enters into the spin box: within its range, with its decimals
SpinBoxEntries(w) ==
    {Fin(n) : n \in {w.min_val.v, w.min_val.v + 3 * Step(w), w.max_val.v - Step(w),
                     w.max_val.v}}

WidgetInit ==
    /\ module = "permissive"
    /\ Unbuilt
    /\ NoCaller
    /\ clock = 0
    /\ seen = NoCall
    /\ probe = NoProbe
    /\ widget \in WidgetSamples
    /\ widget_op = [op |-> "init", arg |-> get_value(widget)]
    /\ NoSession

\* widget.set_value(v)
SetValue ==
    /\ \E v \in SetValueArgs(widget) :
           /\ widget' = set_value(widget, v)
           /\ widget_op' = [op |-> "set_value", arg |-> v]
    /\ UNCHANGED <<handlerVars, callerVars, clock, probeVars, guiVars>>

\* the user drags the slider: valueChanged fires when the position changes
MoveSlider ==
    /\ \E p \in SliderPositions(widget) :
           /\ p # widget.slider
           /\ widget' = _on_slider_changed(widget, p)
           /\ widget_op' = [op |-> "slider", arg |-> Fin(p * Step(widget))]
    /\ UNCHANGED <<handlerVars, callerVars, clock, probeVars, guiVars>>

\* the user edits the spin box: valueChanged fires when the value changes
EditSpinBox ==
    /\ \E v \in SpinBoxEntries(widget) :
           /\ v # widget.spinbox
           /\ widget' = _on_spinbox_changed(widget, v)
           /\ widget_op' = [op |-> "spinbox", arg |-> v]
    /\ UNCHANGED <<handlerVars, callerVars, clock, probeVars, guiVars>>

WidgetNext ==
    \/ SetValue
    \/ MoveSlider
    \/ EditSpinBox

SpecWidget == WidgetInit /\ [][WidgetNext]_vars

\* v kept within [min_val, max_val] of the widget
ClampedInto(w, v) ==
    IF Lt(v, w.min_val) THEN w.min_val ELSE IF Lt(w.max_val, v) THEN w.max_val ELSE v

\* v has no more decimals than the widget
OnGrid(w, v) == IsFinite(v) /\ v.v % Step(w) = 0

\* the slider position equals the spin-box value times 10^decimals
InStep(w) == IsFinite(w.spinbox) /\ w.slider * Step(w) = w.spinbox.v

-----------------------------------------------------------------------------
(* The application: src/main.py and src/predictor_gui.py, over the handler *)
(* of src/model_handler_fixed.py                                           *)

\* how many prediction requests a session makes
MaxRequests == 2

SelectPrompt == "Seleccionar mezcla..."

\* the files the application is started over
SessionDeployments ==
    { <<Regressor(4, TRUE), TypicalDoc>>,
      <<NoModelFile, TypicalDoc>>,
      <<Regressor(4, TRUE), NoMetadataFile>>,
      <<CorruptModelFile, TypicalDoc>>,
      <<PlainObject, TypicalDoc>>,
      <<Regressor(4, TRUE), CorruptMetadataFile>>,
      <<Regressor(4, TRUE), MetadataDoc(TRUE, FALSE, FeatureOrder, NaN)>>,
      <<Regressor(4, TRUE), MetadataDoc(FALSE, TRUE, <<>>, Fin(123))>> }

\* no handler object exists yet
NotConstructed ==
    /\ model = None
    /\ metadata = None
    /\ feature_names = None
    /\ is_loaded = FALSE

\* a form whose cement slider starts at 0 and whose water slider ends at 300
SliderSetupWide ==
    [ Cemento_kg_m3            |-> NewWidget(0, 500, 28000, 0),
      Escoria_Alto_Horno_kg_m3 |-> NewWidget(0, 300, 0, 0),
      Ceniza_Volante_kg_m3     |-> NewWidget(0, 200, 0, 0),
      Agua_kg_m3               |-> NewWidget(130, 300, 17500, 0),
      Superplastificante_kg_m3 |-> NewWidget(0, 25, 250, 1),
      Agregado_Grueso_kg_m3    |-> NewWidget(850, 1100, 97500, 0),
      Agregado_Fino_kg_m3      |-> NewWidget(650, 900, 77500, 0),
      Edad_dias                |-> NewWidget(1, 365, 2800, 0) ]

\* _create_left_panel: the eight SliderSpinBoxWidgets
SliderSetup ==
    [ Cemento_kg_m3            |-> NewWidget(150, 500, 28000, 0),
      Escoria_Alto_Horno_kg_m3 |-> NewWidget(0, 300, 0, 0),
      Ceniza_Volante_kg_m3     |-> NewWidget(0, 200, 0, 0),
      Agua_kg_m3               |-> NewWidget(130, 220, 17500, 0),
      Superplastificante_kg_m3 |-> NewWidget(0, 25, 250, 1),
      Agregado_Grueso_kg_m3    |-> NewWidget(850, 1100, 97500, 0),
      Agregado_Fino_kg_m3      |-> NewWidget(650, 900, 77500, 0),
      Edad_dias                |-> NewWidget(1, 365, 2800, 0) ]

\* the defaults of values.get(...) in _apply_preset_values, in tenths
PresetDefaults == Mix(2800, 0, 0, 1750, 25, 9750, 7750, 280)

\* a Mix Design value (tenths) as a widget value (hundredths), and back
AsWidgetValue(x) == Scale(10, x)
AsMixValue(x) == Fin(x.v \div 10)

\* presets applied with every value cut to an integer
_apply_preset_values_truncating(s, values) ==
    [f \in Features |->
        set_value(s[f], IntValue(AsWidgetValue(IF Has(values, f) THEN Get(values, f)
                                               ELSE Get(PresetDefaults, f))))]

\* _apply_preset_values(values): set_value on each of the eight sliders
_apply_preset_values(s, values) ==
    [f \in Features |->
        set_value(s[f], AsWidgetValue(IF Has(values, f) THEN Get(values, f)
                                      ELSE Get(PresetDefaults, f)))]

\* _on_input_changed: the combo box goes back to its first item (the status
\* bar it also writes is not part of the state)
_on_input_changed(combo) == IF combo # SelectPrompt THEN SelectPrompt ELSE combo

\* _load_preset(preset_name), the slot of presets_combo.currentTextChanged:
\* every set_value emits valueChanged, which runs _on_input_changed
_load_preset(s, preset_name) ==
    IF preset_name # SelectPrompt /\ preset_name \in PresetNames
    THEN [sliders |-> _apply_preset_values(s, PresetValues(preset_name)),
          presets_combo |-> _on_input_changed(preset_name)]
    ELSE [sliders |-> s, presets_combo |-> preset_name]

\* _load_default_values: the preset applied, then setCurrentText, which
\* emits currentTextChanged when the text changes
_load_default_values(s, combo) ==
    IF "C25 - Estructural" \in PresetNames
    THEN LET applied == _apply_preset_values(s, PresetValues("C25 - Estructural"))
             text == _on_input_changed(combo)
         IN  IF text # "C25 - Estructural" THEN _load_preset(applied, "C25 - Estructural")
             ELSE [sliders |-> applied, presets_combo |-> text]
    ELSE [sliders |-> s, presets_combo |-> combo]

\* _get_current_inputs: the eight get_value() in the order of the dict literal
_get_current_inputs(s) ==
    DictOf(FeatureOrder, [f \in Features |-> AsMixValue(get_value(s[f]))])

\* a history that keeps only the latest prediction
_add_to_history_latest_only(history, inp, result) ==
    << [timestamp |-> result.timestamp,
        resistance |-> result.resistencia_predicha_kg_cm2,
        inputs |-> inp] >>

\* _add_to_history(inputs, result): one item appended
_add_to_history(history, inp, result) ==
    Append(history, [timestamp |-> result.timestamp,
                     resistance |-> result.resistencia_predicha_kg_cm2,
                     inputs |-> inp])

\* CircularGauge.set_value of the gauge of the main window,
\* CircularGauge(0, 600, 0, ...): the value in hundredths, kept in [0, 600]
GaugeSetValue(value) == PyMax(Fin(0), PyMin(Fin(60000), value))

\* what the result panel shows once _predict_strength has updated it: the
\* gauge and the four cards
DisplayOf(result) ==
    [gauge |-> GaugeSetValue(result.resistencia_predicha_kg_cm2),
     cards |-> [none |-> FALSE,
                resistance |-> result.resistencia_predicha_kg_cm2,
                edad |-> result.edad_ensayo_dias,
                nec |-> result.clasificacion_nec,
                descripcion |-> result.descripcion_nec,
                ratio |-> result.relacion_agua_cemento,
                confianza |-> result.confianza_prediccion]]

\* a failed request that also forgets the current prediction
_predict_strength_forgetting(current, history, inp, c) ==
    IF c.raised = ""
    THEN [current_prediction |-> c.result,
          prediction_history |-> _add_to_history(history, inp, c.result),
          errors |-> 0]
    ELSE [current_prediction |-> NoResult, prediction_history |-> history, errors |-> 1]

\* _predict_strength with c the outcome of model_handler.predict_strength:
\* the result is kept and added to the history, or the except branch shows
\* one QMessageBox.critical
_predict_strength(current, history, inp, c) ==
    IF c.raised = ""
    THEN [current_prediction |-> c.result,
          prediction_history |-> _add_to_history(history, inp, c.result),
          errors |-> 0]
    ELSE [current_prediction |-> current, prediction_history |-> history, errors |-> 1]

Event(op, arg, errors, infos) == [op |-> op, arg |-> arg, errors |-> errors, infos |-> infos]

\* the fields the user changes by hand, and what they are changed to
EditedFields == {"Cemento_kg_m3"}

SessionInit ==
    /\ module = "permissive"
    /\ \E d \in SessionDeployments :
           /\ model_file = d[1]
           /\ metadata_file = d[2]
    /\ NotConstructed
    /\ NoCaller
    /\ clock = 0
    /\ seen = NoCall
    /\ probe = NoProbe
    /\ widget = NoWidget
    /\ widget_op = NoWidgetOp
    /\ app = [state |-> "start", status |-> 0, display |-> InitialDisplay]
    /\ sliders = <<>>
    /\ presets_combo = ""
    /\ current_prediction = NoResult
    /\ prediction_history = <<>>
    /\ event = NoEvent
    /\ reported = 0

\* main() up to app.exec(): the two exists() checks, Application.run, the
\* constructor of the main window (the handler, the panels, which read
\* get_model_info, the connections, the default values) and show()
Main ==
    /\ app.state = "start"
    /\ IF model_file.kind = "missing" \/ metadata_file.kind = "missing"
       THEN /\ app' = [app EXCEPT !.state = "exited", !.status = 1]
            /\ UNCHANGED <<handlerVars, sliders, presets_combo>>
       ELSE LET h == Load(module, model_file, metadata_file)
                shown == _load_default_values(SliderSetup, SelectPrompt)
            IN  /\ HandlerBecomes(h)
                /\ IF get_model_info(h).raised # ""
                   THEN /\ app' = [app EXCEPT !.state = "exited", !.status = 1]
                        /\ UNCHANGED <<sliders, presets_combo>>
                   ELSE /\ app' = [app EXCEPT !.state = "shown"]
                        /\ sliders' = shown.sliders
                        /\ presets_combo' = shown.presets_combo
    /\ event' = Event("main", "", 0, 0)
    /\ UNCHANGED <<current_prediction, prediction_history, reported>>
    /\ UNCHANGED <<callerVars, clock, probeVars, widgetVars>>

\* the user picks a preset in the combo box
SelectPreset ==
    /\ app.state = "shown"
    /\ \E name \in PresetNames :
           /\ name # presets_combo
           /\ LET loaded == _load_preset(sliders, name)
              IN  /\ sliders' = loaded.sliders
                  /\ presets_combo' = loaded.presets_combo
           /\ event' = Event("preset", name, 0, 0)
    /\ UNCHANGED <<app, current_prediction, prediction_history, reported>>
    /\ UNCHANGED <<handlerVars, callerVars, clock, probeVars, widgetVars>>

\* _reset_inputs (the reset button, "Nueva Prediccion")
ResetInputs ==
    /\ app.state = "shown"
    /\ LET loaded == _load_default_values(sliders, presets_combo)
       IN  /\ sliders' = loaded.sliders
           /\ presets_combo' = loaded.presets_combo
    /\ event' = Event("reset", "C25 - Estructural", 0, 0)
    /\ UNCHANGED <<app, current_prediction, prediction_history, reported>>
    /\ UNCHANGED <<handlerVars, callerVars, clock, probeVars, widgetVars>>

\* a slider drag whose handler also puts the result panel back to its
\* placeholders
DragSliderBlanking ==
    /\ app.state = "shown"
    /\ \E f \in EditedFields :
           LET p == Trunc(sliders[f].max_val.v, Step(sliders[f]))
           IN  /\ p # sliders[f].slider
               /\ sliders' = [sliders EXCEPT ![f] = _on_slider_changed(@, p)]
               /\ event' = Event("slider", f, 0, 0)
    /\ presets_combo' = _on_input_changed(presets_combo)
    /\ app' = [app EXCEPT !.display = InitialDisplay]
    /\ UNCHANGED <<current_prediction, prediction_history, reported>>
    /\ UNCHANGED <<handlerVars, callerVars, clock, probeVars, widgetVars>>

\* the user drags a slider to its far end
DragSlider ==
    /\ app.state = "shown"
    /\ \E f \in EditedFields :
           LET p == Trunc(sliders[f].max_val.v, Step(sliders[f]))
           IN  /\ p # sliders[f].slider
               /\ sliders' = [sliders EXCEPT ![f] = _on_slider_changed(@, p)]
               /\ event' = Event("slider", f, 0, 0)
    /\ presets_combo' = _on_input_changed(presets_combo)
    /\ UNCHANGED <<app, current_prediction, prediction_history, reported>>
    /\ UNCHANGED <<handlerVars, callerVars, clock, probeVars, widgetVars>>

\* the user types the highest value into a spin box
TypeValue ==
    /\ app.state = "shown"
    /\ \E f \in EditedFields :
           LET v == sliders[f].max_val
           IN  /\ v # sliders[f].spinbox
               /\ sliders' = [sliders EXCEPT ![f] = _on_spinbox_changed(@, v)]
               /\ event' = Event("spinbox", f, 0, 0)
    /\ presets_combo' = _on_input_changed(presets_combo)
    /\ UNCHANGED <<app, current_prediction, prediction_history, reported>>
    /\ UNCHANGED <<handlerVars, callerVars, clock, probeVars, widgetVars>>

\* the predict button: _predict_strength.  Wall-clock time has advanced when
\* the next request is made.
Predict ==
    /\ app.state = "shown"
    /\ clock < MaxRequests
    /\ LET inp == _get_current_inputs(sliders)
           c == Stamp(predict_strength(module, TheHandler, inp), clock)
           after == _predict_strength(current_prediction, prediction_history, inp, c)
       IN  /\ call' = c
           /\ HandlerBecomes(AfterCall("predict_strength", TheHandler, c))
           /\ current_prediction' = after.current_prediction
           /\ prediction_history' = after.prediction_history
           /\ app' = IF c.raised = "" THEN [app EXCEPT !.display = DisplayOf(c.result)]
                      ELSE app
           /\ event' = Event("predict", "", after.errors, 0)
           /\ reported' = reported + after.errors
    /\ clock' = clock + 1
    /\ UNCHANGED <<sliders, presets_combo, pc, inputs, edits, probeVars, widgetVars>>

\* _export_history: an information dialog when there is nothing to export;
\* else the file dialog, which the user cancels or which names a file that
\* is written or cannot be written
ExportHistory ==
    /\ app.state = "shown"
    /\ \/ /\ prediction_history = <<>>
          /\ event' = Event("export", "empty", 0, 1)
       \/ /\ prediction_history # <<>>
          /\ \/ event' = Event("export", "cancelled", 0, 0)
             \/ event' = Event("export", "saved", 0, 1)
             \/ event' = Event("export", "failed", 1, 0)
    /\ UNCHANGED <<app, sliders, presets_combo, current_prediction, prediction_history, reported>>
    /\ UNCHANGED <<handlerVars, callerVars, clock, probeVars, widgetVars>>

\* _refresh_charts
RefreshCharts ==
    /\ app.state = "shown"
    /\ event' = Event("refresh", "", 0, 0)
    /\ UNCHANGED <<app, sliders, presets_combo, current_prediction, prediction_history, reported>>
    /\ UNCHANGED <<handlerVars, callerVars, clock, probeVars, widgetVars>>

\* _clear_history: the question dialog, then clear() on Yes
ClearHistory ==
    /\ app.state = "shown"
    /\ \E reply \in {"Yes", "No"} :
           /\ prediction_history' = IF reply = "Yes" THEN <<>> ELSE prediction_history
           /\ event' = Event("clear", reply, 0, 0)
    /\ UNCHANGED <<app, sliders, presets_combo, current_prediction, reported>>
    /\ UNCHANGED <<handlerVars, callerVars, clock, probeVars, widgetVars>>

\* the user closes the window: app.exec() returns 0
Close ==
    /\ app.state = "shown"
    /\ app' = [app EXCEPT !.state = "exited", !.status = 0]
    /\ event' = Event("close", "", 0, 0)
    /\ UNCHANGED <<sliders, presets_combo, current_prediction, prediction_history, reported>>
    /\ UNCHANGED <<handlerVars, callerVars, clock, probeVars, widgetVars>>

SessionNext ==
    \/ Main
    \/ SelectPreset
    \/ ResetInputs
    \/ DragSlider
    \/ TypeValue
    \/ Predict
    \/ ExportHistory
    \/ RefreshCharts
    \/ ClearHistory
    \/ Close

SpecSession == SessionInit /\ [][SessionNext]_vars


-----------------------------------------------------------------------------
(* Properties of the application *)

\* C13: startup failures are fatal: over a model artifact or a metadata file
\* that is missing, corrupt or malformed the application exits with a
\* non-zero status and the main window is never shown.
C13_StartupFailuresFatal ==
    ~ArtifactsSound =>
        /\ app.state # "shown"
        /\ app.state = "exited" => app.status # 0

\* the step is a request of the predict button
PredictStep == clock' = clock + 1

\* C14: a prediction request that fails inside predict_strength leaves
\* prediction_history, current_prediction and the handler's model and
\* metadata as they were and shows exactly one error dialog; a request that
\* succeeds, whatever failed before it, makes its result the current
\* prediction and adds it to the history without an error dialog.
C14_FailedRequestLeavesSession ==
    [][PredictStep =>
          /\ call' = Stamp(predict_strength(module, Load(module, model_file, metadata_file),
                                            _get_current_inputs(sliders)), clock)
          /\ call'.raised # "" =>
                /\ prediction_history' = prediction_history
                /\ current_prediction' = current_prediction
                /\ model' = model
                /\ metadata' = metadata
                /\ event'.errors = 1
                /\ reported' = reported + 1
          /\ call'.raised = "" =>
                /\ current_prediction' = call'.result
                /\ Len(prediction_history') = Len(prediction_history) + 1
                /\ event'.errors = 0
                /\ reported' = reported]_vars

\* a request that succeeded after one that failed over a loaded handler,
\* the earlier prediction still in the history
C14_Witness ==
    /\ app.state = "shown"
    /\ is_loaded
    /\ reported = 1
    /\ event.op = "predict"
    /\ event.errors = 0
    /\ call.raised = ""
    /\ current_prediction = call.result
    /\ Len(prediction_history) = 1
    /\ prediction_history[1].timestamp = 1

\* C15: prediction_history is append-only: a successful prediction appends
\* exactly one item with that prediction's timestamp, strength and the eight
\* inputs it was made from; _clear_history answered Yes empties the list;
\* every other step (an input change, a preset, a reset, a failed
\* prediction, an export, a refresh, a clear answered No) leaves the list as
\* it is.
C15_HistoryAppendOnly ==
    [][/\ (PredictStep /\ call'.raised = "") =>
              /\ call'.result.timestamp = clock
              /\ prediction_history' =
                     Append(prediction_history,
                            [timestamp |-> call'.result.timestamp,
                             resistance |-> call'.result.resistencia_predicha_kg_cm2,
                             inputs |-> _get_current_inputs(sliders)])
       /\ (event'.op = "clear" /\ event'.arg = "Yes") => prediction_history' = <<>>
       /\ (~(PredictStep /\ call'.raised = "") /\ ~(event'.op = "clear" /\ event'.arg = "Yes")) =>
              prediction_history' = prediction_history]_vars

\* two predictions in the history, in the order they were made, from
\* different inputs
C15_Witness ==
    /\ Len(prediction_history) = 2
    /\ prediction_history[1].timestamp < prediction_history[2].timestamp
    /\ prediction_history[1].inputs # prediction_history[2].inputs
    /\ event.op = "predict"

\* C18: every preset of get_preset_mixes survives the form: whatever the
\* sliders hold, once the preset is applied _get_current_inputs returns
\* exactly the preset's eight values, and validate_inputs of the permissive
\* handler finds them valid, with no violation; so it is after the user has
\* picked a preset and after the default preset is loaded.
C18_PresetsSurviveTheForm ==
    app.state = "shown" =>
        /\ \A name \in PresetNames :
               LET inp == _get_current_inputs(_apply_preset_values(sliders, PresetValues(name)))
                   v == validate_inputs("permissive", FeatureOrder, inp)
               IN  /\ inp = PresetValues(name)
                   /\ v.valid
                   /\ v.errors = <<>>
        /\ event.op \in {"preset", "reset", "main"} =>
               /\ _get_current_inputs(sliders) =
                      PresetValues(IF event.op = "preset" THEN event.arg ELSE "C25 - Estructural")
               /\ validate_inputs("permissive", FeatureOrder, _get_current_inputs(sliders)).valid

\* the form after "C20 - Uso General" was picked: the eight values of the
\* preset, the superplasticizer at 2.5
C18_Witness ==
    /\ app.state = "shown"
    /\ event.op = "preset"
    /\ event.arg = "C20 - Uso General"
    /\ _get_current_inputs(sliders) = PresetC20
    /\ get_value(sliders["Superplastificante_kg_m3"]) = Fin(250)


-----------------------------------------------------------------------------
(* Properties of the tables and of the handler's results *)

\* C21: the band table of each handler has four intervals [lo, hi) that
\* start at 0, are non-empty, contiguous in table order (each hi is the next
\* lo, ascending), pairwise disjoint, and end with an interval unbounded
\* above, so that every finite strength >= 0 lies in exactly one of them.
C21_BandsPartitionNonNegatives ==
    LET T == NEC_CLASSIFICATION(module)
    IN  /\ Len(T) = 4
        /\ T[1].lo = Fin(0)
        /\ \A i \in 1..Len(T) : IsFinite(T[i].lo) /\ Lt(T[i].lo, T[i].hi)
        /\ \A i \in 1..(Len(T) - 1) : IsFinite(T[i].hi) /\ T[i].hi = T[i + 1].lo
        /\ T[Len(T)].hi = PosInf
        /\ \A i, j \in 1..Len(T) : i < j => Le(T[i].hi, T[j].lo)
        /\ (ClassifyCall /\ IsFinite(call.arg) /\ call.arg.v >= 0) =>
               Cardinality(BandsHolding(call.arg)) = 1

\* the strength at which the strict table passes from its first band to its
\* second, classified into the second
C21_Witness ==
    /\ ClassifyCall
    /\ module = "strict"
    /\ call.arg = Fin(210000)
    /\ call.triple.clasificacion = "Resistencia Normal"


-----------------------------------------------------------------------------
(* Key order of the Mix Design and field order of the metadata *)

Reversed(s) == [i \in 1..Len(s) |-> s[Len(s) + 1 - i]]

\* a metadata document that lists the eight fields in another order
PermutedDoc == MetadataDoc(TRUE, TRUE, Reversed(FeatureOrder), Fin(123))

\* the field values of the Mix Designs: the preset "C20 - Uso General" and
\* the same with cement and water outside both range tables, in tenths
KeyOrderValues ==
    { [f \in Features |-> Get(PresetC20, f)],
      [f \in Features |-> IF f = "Cemento_kg_m3" THEN Fin(9000)
                          ELSE IF f = "Agua_kg_m3" THEN Fin(500)
                          ELSE Get(PresetC20, f)] }

\* each of them as a dict whose keys were inserted in the canonical order
\* or in the reverse order
KeyOrderMixes ==
    {DictOf(order, values) : order \in {FeatureOrder, Reversed(FeatureOrder)},
                             values \in KeyOrderValues}

OrderInit ==
    /\ module \in Modules
    /\ \E d \in {Regressor(0, FALSE), Regressor(4, TRUE)} \X {TypicalDoc, PermutedDoc} :
           Constructed(d)
    /\ NoCaller
    /\ clock = 0
    /\ seen = NoCall
    /\ probe = NoProbe
    /\ widget = NoWidget
    /\ widget_op = NoWidgetOp
    /\ NoSession

\* the caller builds one of the Mix Designs
TakeKeyOrderMix ==
    /\ pc = "idle"
    /\ pc' = "building"
    /\ \E mix \in KeyOrderMixes : inputs' = mix
    /\ edits' = MaxEdits
    /\ call' = NoCall
    /\ UNCHANGED <<handlerVars, clock, probeVars, widgetVars, guiVars>>

\* the caller keeps the outcome of a validate_inputs call to compare later
\* ones with it
KeepValidation ==
    /\ pc = "called"
    /\ call.op = "validate_inputs"
    /\ seen # call
    /\ seen' = call
    /\ UNCHANGED <<handlerVars, callerVars, clock, probe, widgetVars, guiVars>>

OrderNext ==
    \/ TakeKeyOrderMix
    \/ ValidateInputs
    \/ PredictStrength
    \/ KeepValidation
    \/ Return

SpecOrder == OrderInit /\ [][OrderNext]_vars

\* two Mix Designs with the same fields and the same value in each
SameFields(a, b) ==
    /\ Range(a.keys) = Range(b.keys)
    /\ \A k \in Range(a.keys) : Get(a, k) = Get(b, k)

\* the fields a list of violations names, in its order
ErrorFields(errors) == [i \in 1..Len(errors) |-> errors[i].feature]

\* the names of `names` that occur in s, in the order of `names`
InOrderOf(names, s) ==
    LET Occurs(f) == f \in Range(s)
    IN  SelectSeq(names, Occurs)

\* C22: the violations validate_inputs returns are ordered by feature_names,
\* whatever the key order of the Mix Design: two Mix Designs with the same
\* field values yield the same list of violations in the same order.
C22_ViolationsInCanonicalOrder ==
    (ValidateCall /\ Returned) =>
        /\ ErrorFields(call.errors) =
               InOrderOf(feature_names.val, ErrorFields(call.errors))
        /\ (seen.op = "validate_inputs" /\ seen.raised = ""
                /\ SameFields(call.inputs, seen.inputs)) =>
               call.errors = seen.errors

\* C23: the feature vector handed to model.predict holds, at position i, the
\* input value of the i-th name of modelo_info.variables_entrada of the
\* loaded metadata document.
C23_VectorInMetadataOrder ==
    (PredictCall /\ call.model_invoked) =>
        call.X = [i \in 1..Len(metadata.val.variables_entrada) |->
                      Get(call.inputs, metadata.val.variables_entrada[i])]


-----------------------------------------------------------------------------
(* The band limits and colours outside the handler *)

\* CircularGauge.paintEvent: the colour of the arc for _value_animated
GaugePaintColor(value) ==
    IF Lt(value, Fin(21000)) THEN "#ef4444"
    ELSE IF Lt(value, Fin(28000)) THEN "#f97316"
    ELSE IF Lt(value, Fin(42000)) THEN "#22c55e"
    ELSE "#3b82f6"

\* utils.get_nec_color(resistance), resistance in hundredths
get_nec_color(resistance) ==
    IF Lt(resistance, Fin(21000)) THEN "#ef4444"
    ELSE IF Lt(resistance, Fin(28000)) THEN "#f97316"
    ELSE IF Lt(resistance, Fin(42000)) THEN "#22c55e"
    ELSE "#3b82f6"

\* utils.NEC_CLASSIFICATIONS, limits in thousandths
NEC_CLASSIFICATIONS ==
    << Band(Fin(0), Fin(210000), "baja", "#ef4444", "Uso estructural limitado"),
       Band(Fin(210000), Fin(280000), "normal", "#f97316", "Uso estructural comun"),
       Band(Fin(280000), Fin(420000), "alta", "#22c55e", "Estructuras exigentes"),
       Band(Fin(420000), PosInf, "ultra_alta", "#3b82f6", "Estructuras especiales") >>

\* ranges and colors of _plot_results_charts: the upper limit each bar is
\* drawn to, in thousandths, and its colour
ChartRanges ==
    << [hi |-> Fin(140000), color |-> "#ef4444"], [hi |-> Fin(280000), color |-> "#f97316"],
       [hi |-> Fin(420000), color |-> "#22c55e"], [hi |-> Fin(600000), color |-> "#3b82f6"] >>

\* C24: one band table is used everywhere: the table of the handler the
\* main window uses, utils.NEC_CLASSIFICATIONS and the limits drawn by
\* _plot_results_charts have the same boundaries and colours, and for every
\* result of that handler the colour of the result, the colour the gauge
\* paints for the shown strength and utils.get_nec_color are the same.
C24_OneBandTable ==
    LET T == NEC_CLASSIFICATION("permissive")
    IN  /\ \A i \in 1..Len(T) :
               /\ T[i].lo = NEC_CLASSIFICATIONS[i].lo
               /\ T[i].hi = NEC_CLASSIFICATIONS[i].hi
               /\ T[i].color = NEC_CLASSIFICATIONS[i].color
               /\ T[i].color = ChartRanges[i].color
               /\ IsFinite(T[i].hi) => T[i].hi = ChartRanges[i].hi
        /\ (PredictCall /\ Returned /\ module = "permissive") =>
               LET shown == call.result.resistencia_predicha_kg_cm2
               IN  /\ GaugePaintColor(GaugeSetValue(shown)) = call.result.color_clasificacion
                   /\ get_nec_color(shown) = call.result.color_clasificacion


\* C25: whenever the scalar the model produced is NaN or infinite,
\* predict_strength raises and returns no result: no classification, no
\* confidence and no timestamp are produced.
C25_NonFinitePredictionRejected ==
    (PredictCall /\ call.model_invoked /\ (IsNaN(call.prediction) \/ IsInf(call.prediction))) =>
        /\ call.raised # ""
        /\ call.result = NoResult
        /\ call.triple = SinClasificar

\* the strict handler, its model having answered -infinity for a valid Mix
\* Design
C25_Witness ==
    /\ PredictCall
    /\ module = "strict"
    /\ call.valid
    /\ call.model_invoked
    /\ call.prediction = NegInf
    /\ call.raised = "ValueError"
    /\ call.result = NoResult


-----------------------------------------------------------------------------
(* The derived quantities of a result, on Mix Designs given to two decimals *)

\* field values in hundredths: whole numbers, one decimal, two decimals
DerivedCements == {0, 28000, 30026}
DerivedSlags == {0, 7050}
DerivedAshes == {0, 2012}
DerivedWaters == {17500, 13333}
DerivedAges == {700, 2800}
\* what the model answered, in thousandths
DerivedPredictions == {Fin(0), Fin(279994), Fin(1500000)}

\* the derived quantities with the total cut to one decimal instead of rounded
derived_quantities_truncating(cemento, escoria, ceniza, agua, edad, prediction) ==
    LET ratio == WaterCementRatio(agua, cemento)
        total == Add(Add(cemento, escoria), ceniza)
    IN  [raised |-> ratio.raised,
         relacion_agua_cemento |-> ratio.value,
         total_cementicios_kg_m3 |-> Fin(total.v \div 10),
         edad_ensayo_dias |-> edad]

\* water_cement_ratio, total_cementitious and the three entries of the
\* result dict built from them and from inputs['Edad_dias'], with
\* `prediction` in scope; the fields in hundredths, the total in tenths
derived_quantities(cemento, escoria, ceniza, agua, edad, prediction) ==
    LET ratio == WaterCementRatio(agua, cemento)
        total == Add(Add(cemento, escoria), ceniza)
    IN  [raised |-> ratio.raised,
         relacion_agua_cemento |-> ratio.value,
         total_cementicios_kg_m3 |-> RoundedTotal(total, 100),
         edad_ensayo_dias |-> edad]

DerivedInit ==
    /\ module \in Modules
    /\ Unbuilt
    /\ NoCaller
    /\ clock = 0
    /\ seen = NoCall
    /\ probe = [stage |-> "idle"]
    /\ widget = NoWidget
    /\ widget_op = NoWidgetOp
    /\ NoSession

\* the quantities are computed for a Mix Design and a model answer
ComputeDerived ==
    /\ \E c \in DerivedCements, s \in DerivedSlags, f \in DerivedAshes,
          w \in DerivedWaters, e \in DerivedAges, p \in DerivedPredictions :
           probe' = [stage |-> "result",
                     cemento |-> Fin(c), escoria |-> Fin(s), ceniza |-> Fin(f),
                     agua |-> Fin(w), edad |-> Fin(e), prediction |-> p,
                     out |-> derived_quantities(Fin(c), Fin(s), Fin(f), Fin(w), Fin(e), p)]
    /\ UNCHANGED <<handlerVars, callerVars, clock, seen, widgetVars, guiVars>>

DerivedNext == ComputeDerived

SpecDerived == DerivedInit /\ [][DerivedNext]_vars

\* quantities were computed and no error was raised
DerivedReturned == probe.stage = "result" /\ probe.out.raised = ""

\* |n|
AbsInt(n) == IF n < 0 THEN -n ELSE n

\* the ratio (thousandths) is water / cement to within half a thousandth,
\* the age is the input age, and no other model answer changes any of the
\* three
RatioAndAgeMatch ==
    /\ 2 * AbsInt(probe.out.relacion_agua_cemento.v * probe.cemento.v - 1000 * probe.agua.v)
           <= probe.cemento.v
    /\ probe.out.edad_ensayo_dias = probe.edad
    /\ \A p \in DerivedPredictions :
           derived_quantities(probe.cemento, probe.escoria, probe.ceniza, probe.agua,
                              probe.edad, p) = probe.out

\* C26 as stated: in every returned result relacion_agua_cemento is water /
\* cement up to the result's rounding, total_cementicios_kg_m3 equals cement
\* + slag + fly ash, edad_ensayo_dias equals the input age, and none of them
\* depends on the model output.
C26_Original ==
    DerivedReturned =>
        /\ RatioAndAgeMatch
        /\ 10 * probe.out.total_cementicios_kg_m3.v =
               probe.cemento.v + probe.escoria.v + probe.ceniza.v

\* C26 (amended): in every returned result relacion_agua_cemento is water /
\* cement rounded to three decimals, total_cementicios_kg_m3 is cement + slag
\* + fly ash rounded to one decimal (equal to the sum when the three inputs
\* have at most one decimal), edad_ensayo_dias equals the input age, and none
\* of them depends on the model output.
C26_DerivedQuantitiesMatch ==
    DerivedReturned =>
        LET sum == probe.cemento.v + probe.escoria.v + probe.ceniza.v
        IN  /\ RatioAndAgeMatch
            /\ 2 * AbsInt(10 * probe.out.total_cementicios_kg_m3.v - sum) <= 10
            /\ sum % 10 = 0 => 10 * probe.out.total_cementicios_kg_m3.v = sum

\* a Mix Design with cement 300.26, slag 70.5 and fly ash 20.12: the total
\* 390.88 is reported as 390.9
C26_Witness ==
    /\ DerivedReturned
    /\ probe.cemento = Fin(30026)
    /\ probe.escoria = Fin(7050)
    /\ probe.ceniza = Fin(2012)
    /\ probe.out.total_cementicios_kg_m3 = Fin(3909)


\* C27: in every state of a handler is_loaded implies that model and
\* metadata are both set; and while is_loaded is false predict_strength
\* raises RuntimeError without invoking the model and returns no result,
\* and get_model_info and get_feature_importance return an empty mapping.
C27_LoadStateInvariant ==
    /\ is_loaded => (model # None /\ metadata # None)
    /\ ~is_loaded =>
           /\ PredictCall =>
                  /\ call.raised = "RuntimeError"
                  /\ ~call.model_invoked
                  /\ ~call.validated
                  /\ call.result = NoResult
           /\ call.op \in {"get_model_info", "get_feature_importance"} =>
                  /\ call.raised = ""
                  /\ call.result = Mapping(0)

\* get_model_info answered by a handler whose model file did not
\* deserialize
C27_Witness ==
    /\ ~is_loaded
    /\ model_file = CorruptModelFile
    /\ model = None
    /\ call.op = "get_model_info"
    /\ call.raised = ""
    /\ call.result = Mapping(0)


-----------------------------------------------------------------------------
(* Properties of the form *)

\* the value x of field f lies within VALID_RANGES of model_handler_fixed.py
WithinHandlerRange(f, x) ==
    /\ Le(MinOf("permissive", f), x)
    /\ Le(x, MaxOf("permissive", f))

\* the Mix Design is complete, every value lies within the handler's range,
\* validate_inputs finds no violation and the cement is above 0
SubmittableMix(inp) ==
    /\ \A f \in Features : Has(inp, f) /\ WithinHandlerRange(f, Get(inp, f))
    /\ validate_inputs("permissive", FeatureOrder, inp) = [valid |-> TRUE, errors |-> <<>>]
    /\ Lt(Fin(0), Get(inp, "Cemento_kg_m3"))

\* C28: every Mix Design the main window can submit is valid for the
\* handler it uses: the range of each slider lies within the handler's
\* range of the field; whatever presets, resets, slider moves and spin-box
\* edits came before, _get_current_inputs holds all eight fields, each
\* within VALID_RANGES of model_handler_fixed.py, validate_inputs reports no
\* violation and cement is above 0; whichever slider is moved or spin box
\* edited next, its value stays within the handler's range; and no
\* prediction request is made with invalid inputs.
C28_GuiInputsValid ==
    app.state = "shown" =>
        /\ \A f \in Features :
               /\ Le(Scale(10, MinOf("permissive", f)), sliders[f].min_val)
               /\ Le(sliders[f].max_val, Scale(10, MaxOf("permissive", f)))
        /\ SubmittableMix(_get_current_inputs(sliders))
        /\ \A f \in Features :
               /\ \A p \in SliderPositions(sliders[f]) :
                      WithinHandlerRange(
                          f, AsMixValue(get_value(_on_slider_changed(sliders[f], p))))
               /\ \A v \in SpinBoxEntries(sliders[f]) :
                      WithinHandlerRange(
                          f, AsMixValue(get_value(_on_spinbox_changed(sliders[f], v))))
        /\ (event.op = "predict" /\ call.validated) =>
               /\ call.valid
               /\ call.raised # "ZeroDivisionError"
               /\ call.inputs = _get_current_inputs(sliders)

\* a prediction requested with the cement slider at its far end, 500
C28_Witness ==
    /\ app.state = "shown"
    /\ event.op = "predict"
    /\ call.validated
    /\ call.valid
    /\ Get(call.inputs, "Cemento_kg_m3") = Fin(5000)
    /\ sliders["Cemento_kg_m3"].slider = 500


\* the step changed an input: a slider drag, a spin-box edit, a preset or a
\* reset, all of which run _on_input_changed
InputChangeStep == event'.op \in {"slider", "spinbox", "preset", "reset"}

\* C29: changing an input never overwrites a prediction: the step leaves
\* current_prediction, prediction_history, the result panel and the handler
\* as they were (the preset selector and the sliders may change), so that
\* the result panel always shows the result of the last successful
\* prediction request, or its placeholders when there was none.
C29_InputChangeKeepsPrediction ==
    [][/\ InputChangeStep =>
              /\ current_prediction' = current_prediction
              /\ prediction_history' = prediction_history
              /\ app' = app
              /\ reported' = reported
              /\ <<model, metadata, feature_names, is_loaded>>' =
                     <<model, metadata, feature_names, is_loaded>>
       /\ app'.display = IF current_prediction' = NoResult THEN InitialDisplay
                         ELSE DisplayOf(current_prediction')]_vars

\* the cement slider dragged after a prediction: the panel still shows that
\* prediction, made from other inputs than the form now holds
C29_Witness ==
    /\ app.state = "shown"
    /\ event.op = "slider"
    /\ current_prediction # NoResult
    /\ app.display = DisplayOf(current_prediction)
    /\ app.display.cards.resistance = prediction_history[Len(prediction_history)].resistance
    /\ prediction_history[Len(prediction_history)].inputs # _get_current_inputs(sliders)

\* C30: immediately after the user selects a preset in the combo box, after
\* a reset and after the window is constructed (_load_default_values selects
\* "C25 - Estructural"), with no further input change, the selector shows
\* the name of that preset and the sliders hold its values.
C30_SelectorShowsLoadedPreset ==
    (app.state = "shown" /\ event.op \in {"preset", "reset", "main"}) =>
        LET name == IF event.op = "preset" THEN event.arg ELSE "C25 - Estructural"
        IN  /\ presets_combo = name
            /\ _get_current_inputs(sliders) = PresetValues(name)

=============================================================================
